---- MODULE Spec2Model ----
(***************************************************************************)
(* BizClaw: scheduler with durable retry (bizclaw-scheduler), tool-loop    *)
(* detector (bizclaw-agent), handoff / team-task store (bizclaw-db,        *)
(* bizclaw-tools) and pairing codes (bizclaw-platform).                    *)
(*                                                                         *)
(* Each subsystem has its own specification over the shared variable list; *)
(* a specification leaves the variables of the other subsystems unchanged. *)
(***************************************************************************)
EXTENDS Integers, Sequences, FiniteSets, TLC

VARIABLES
    now,            \* Utc::now(), whole seconds
    tasks,          \* SchedulerEngine.tasks : Vec<Task>
    triggered,      \* spawn_scheduler_with_agent: triggered_tasks still to execute
    router,         \* SchedulerEngine.router: notifications recorded, by priority
    backend,        \* DataStore::name(): "sqlite" or "postgres"
    handoffs,       \* table handoffs, rows in insertion order
    hpc,            \* per caller: the create_handoff call in progress, if any
    team_tasks,     \* table team_tasks: task id -> row
    claimed,        \* <<agent, task id>> of every claim the tool reported as successful
    tenants,        \* table tenants: slug -> row
    vp,             \* per caller: the validate_pairing call in progress, if any
    returned,       \* <<caller, code>> of every validate_pairing that returned the tenant
    issued,         \* number of pairing codes generated so far
    det,            \* the LoopDetector of an agent
    log,            \* the calls made on det so far, with the value each returned
    allowed_commands, \* Allowlist.allowed_commands
    command,        \* the command is_command_allowed is asked about
    cmd_ret,        \* what is_command_allowed returned, once called
    url,            \* the URL given to the HTTP tool
    url_ret,        \* what is_url_blocked returned, once called
    orch_lock,      \* the handler holding the lock of the shared Orchestrator, if any
    agent_lock,     \* per agent: the handler holding NamedAgent.agent's lock, if any
    message_count,  \* NamedAgent.message_count, per agent
    message_log,    \* Orchestrator.message_log
    hreq,           \* per handler: the orchestrator call in progress, if any
    links,          \* table agent_links of the attached store
    delegations,    \* table delegations of the attached store
    pending_delegations, \* OrchToolState.pending_delegations
    store_now,      \* Utc::now() / NOW() seen by the stores, whole seconds
    sq,             \* the tables of a SqliteStore
    pg,             \* the tables of a PostgresStore
    store_ret,      \* the last DataStore call and what each backend returned
    tool_ret,       \* the last orchestration tool call: the store results and the ToolResult
    routed,         \* the last message sent through the orchestrator and the agent it went to
    agents,         \* Orchestrator.agents : name -> NamedAgent
    default_agent,  \* Orchestrator.default_agent
    pool_ret,       \* the last call on the agent pool and what it returned
    saved_tasks,    \* TaskStore: the task list last written to disk
    team,           \* AgentTeam.members of the team being built
    team_rows,      \* teams.members as stored by each backend, once create_team ran
    team_loaded,    \* what get_team returned from each backend, once called
    handoff_ret,    \* the last create_handoff call: its result and the session's active handoff before it
    team_messages,  \* table team_messages of one team, rows in insertion order
    msg_seen,       \* <<agent, message id>> of every message the team_message tool showed to the agent
    check_ret,      \* what DefaultSecurityPolicy::check_command returned, once called
    next_id,        \* the id the client gives its next JsonRpcRequest
    server_in,      \* child stdin: ids of the requests the server has not answered yet
    server_out,     \* child stdout: ids of the response lines not read yet
    req,            \* the StdioTransport::request call in progress, if any
    resp,           \* the last request that returned: its id and the id of the response it returned
    wf,             \* the Workflow registered with the engine: its steps and stop_on_failure
    wf_state,       \* the WorkflowState of the execute call, once it has begun
    wf_idx,         \* execute: the index of the step the loop is at
    wf_errors       \* the names of the steps whose execution returned Err during the call

schedVars == <<now, tasks, triggered, router>>

handoffVars == <<backend, handoffs, hpc>>

teamVars == <<team_tasks, claimed>>

pairVars == <<tenants, vp, returned, issued>>

loopVars == <<det, log>>

guardVars == <<allowed_commands, command, cmd_ret, url, url_ret>>

orchVars == <<orch_lock, agent_lock, message_count, message_log, hreq, links, delegations,
              pending_delegations>>

storeVars == <<store_now, sq, pg, store_ret>>

toolVars == <<tool_ret, routed>>

poolVars == <<agents, default_agent, pool_ret>>

diskVars == <<saved_tasks>>

rosterVars == <<team, team_rows, team_loaded>>

atomVars == <<handoff_ret>>

inboxVars == <<team_messages, msg_seen>>

policyVars == <<check_ret>>

mcpVars == <<next_id, server_in, server_out, req, resp>>

flowVars == <<wf, wf_state, wf_idx, wf_errors>>

lateVars == <<rosterVars, atomVars, inboxVars, policyVars, mcpVars, flowVars>>

exceptRosterVars == <<atomVars, inboxVars, policyVars, mcpVars, flowVars>>

exceptAtomVars == <<rosterVars, inboxVars, policyVars, mcpVars, flowVars>>

exceptInboxVars == <<rosterVars, atomVars, policyVars, mcpVars, flowVars>>

exceptPolicyVars == <<rosterVars, atomVars, inboxVars, mcpVars, flowVars>>

exceptMcpVars == <<rosterVars, atomVars, inboxVars, policyVars, flowVars>>

exceptFlowVars == <<rosterVars, atomVars, inboxVars, policyVars, mcpVars>>

extVars == <<toolVars, poolVars, diskVars, lateVars>>

coreVars == <<schedVars, handoffVars, teamVars, pairVars, loopVars>>

vars == <<now, tasks, triggered, router, backend, handoffs, hpc, team_tasks, claimed,
          tenants, vp, returned, issued, det, log,
          allowed_commands, command, cmd_ret, url, url_ret,
          orch_lock, agent_lock, message_count, message_log, hreq, links, delegations,
          pending_delegations, store_now, sq, pg, store_ret,
          tool_ret, routed, agents, default_agent, pool_ret, saved_tasks,
          team, team_rows, team_loaded,
          handoff_ret,
          team_messages, msg_seen,
          check_ret,
          next_id, server_in, server_out, req, resp,
          wf, wf_state, wf_idx, wf_errors>>

\* ------------------------------------------------------------------------
\* Bounds
\* ------------------------------------------------------------------------
MaxTime == 12
LadderMaxTime == 222
LadderStart == 5
MaxActionSecs == 1

\* Option::None for timestamps, delays and codes
None == -1

\* Option::None for strings
NoneStr == "None"

\* no call in progress
Idle == [pc |-> "idle"]

Errors == {"e1", "e2"}

Min(a, b) == IF a <= b THEN a ELSE b

RECURSIVE Pow(_, _)
Pow(b, n) == IF n = 0 THEN 1 ELSE b * Pow(b, n - 1)

\* ------------------------------------------------------------------------
\* tasks.rs : RetryPolicy
\* backoff_multiplier (f64) is kept as the fraction mult_num / mult_den
\* ------------------------------------------------------------------------
RetryPolicyDefault ==
    [max_retries |-> 3, base_delay_secs |-> 30, mult_num |-> 2, mult_den |-> 1,
     max_delay_secs |-> 300]

RetryPolicyNone == [RetryPolicyDefault EXCEPT !.max_retries = 0]

RetryPolicyAggressive ==
    [max_retries |-> 5, base_delay_secs |-> 10, mult_num |-> 3, mult_den |-> 2,
     max_delay_secs |-> 120]

\* a custom policy (the fields are public and deserialised from the store)
RetryPolicyShort ==
    [max_retries |-> 2, base_delay_secs |-> 2, mult_num |-> 2, mult_den |-> 1,
     max_delay_secs |-> 3]

Policies == {RetryPolicyDefault, RetryPolicyNone, RetryPolicyAggressive, RetryPolicyShort}

\* RetryPolicy::next_delay: None once attempt >= max_retries, otherwise
\* (base * multiplier^attempt) truncated to u64 and capped at max_delay_secs
next_delay(retry, attempt) ==
    IF attempt >= retry.max_retries
    THEN None
    ELSE Min((retry.base_delay_secs * Pow(retry.mult_num, attempt))
                 \div Pow(retry.mult_den, attempt),
             retry.max_delay_secs)

\* ------------------------------------------------------------------------
\* tasks.rs : TaskStatus
\* ------------------------------------------------------------------------
Pending == [kind |-> "Pending"]
Running == [kind |-> "Running"]
Completed == [kind |-> "Completed"]
Disabled == [kind |-> "Disabled"]
Failed(e) == [kind |-> "Failed", err |-> e]
RetryPending(at, n) == [kind |-> "RetryPending", retry_at |-> at, attempt |-> n]

\* cron::next_run_from_cron(expression, from): the first activation strictly
\* after `from`; the expression is kept as its period in seconds
next_run_from_cron(period, from) == ((from \div period) + 1) * period

\* ------------------------------------------------------------------------
\* tasks.rs : Task constructors
\* ------------------------------------------------------------------------
NewTask(id, ty, every, next, created) ==
    [id |-> id, action |-> "Notify", task_type |-> ty, every_secs |-> every,
     status |-> Pending,
     created_at |-> created, last_run |-> None, next_run |-> next,
     run_count |-> 0, enabled |-> TRUE, retry |-> RetryPolicyDefault,
     fail_count |-> 0, last_error |-> NoneStr]

\* Task::once(name, at, action); every_secs holds `at`
TaskOnce(id, at, created) == NewTask(id, "Once", at, at, created)

\* Task::interval(name, every_secs, action)
TaskInterval(id, every, created) == NewTask(id, "Interval", every, created + every, created)

\* Task::cron(name, expression, action); every_secs holds the expression; followed by add_task's
\* recompute_cron_times, which fills the empty next_run
TaskCron(id, period, created) ==
    NewTask(id, "Cron", period, next_run_from_cron(period, created), created)

\* should_run that waits until the retry time has passed
should_run_late(t, clock) ==
    IF ~t.enabled \/ t.status.kind = "Disabled"
    THEN FALSE
    ELSE IF t.status.kind = "RetryPending"
         THEN clock > t.status.retry_at
         ELSE IF t.next_run # None THEN clock >= t.next_run ELSE FALSE

\* Task::should_run
should_run(t, clock) ==
    IF ~t.enabled \/ t.status.kind = "Disabled"
    THEN FALSE
    ELSE IF t.status.kind = "RetryPending"
         THEN clock >= t.status.retry_at
         ELSE IF t.next_run # None THEN clock >= t.next_run ELSE FALSE

\* Task::schedule_retry (the returned bool is status.kind = "RetryPending")
schedule_retry(t, error, clock) ==
    LET fc == t.fail_count + 1
        delay == next_delay(t.retry, fc - 1)
    IN  IF delay # None
        THEN [t EXCEPT !.fail_count = fc, !.last_error = error,
                       !.status = RetryPending(clock + delay, fc),
                       !.next_run = clock + delay]
        ELSE [t EXCEPT !.fail_count = fc, !.last_error = error,
                       !.status = Failed(error)]

\* mark_success that leaves the failure counter as it is
mark_success_keep(t) ==
    [t EXCEPT !.last_error = NoneStr, !.status = Completed]

\* Task::mark_success
mark_success(t) ==
    [t EXCEPT !.fail_count = 0, !.last_error = NoneStr, !.status = Completed]

\* Task::is_permanently_failed
is_permanently_failed(t) ==
    /\ t.status.kind = "Failed"
    /\ t.fail_count >= t.retry.max_retries
    /\ t.retry.max_retries > 0

\* ------------------------------------------------------------------------
\* engine.rs : SchedulerEngine
\* ------------------------------------------------------------------------
CheckIntervalSecs == 1

TaskActions == {"AgentPrompt", "Webhook", "Notify"}

\* position of the first task with this id (0 if there is none):
\* tasks.iter_mut().find(|t| t.id == id)
find(ts, id) ==
    IF \E i \in DOMAIN ts : ts[i].id = id
    THEN CHOOSE i \in DOMAIN ts : ts[i].id = id /\ \A j \in 1..(i - 1) : ts[j].id # id
    ELSE 0

\* body of SchedulerEngine::set_enabled for the task found
set_enabled(t, enabled) ==
    IF enabled
    THEN [t EXCEPT !.enabled = TRUE, !.status = Pending,
                   !.fail_count = 0, !.last_error = NoneStr]
    ELSE [t EXCEPT !.enabled = FALSE, !.status = Disabled]

\* body of the loop of SchedulerEngine::tick for one task that should run
tick_task(t, clock) ==
    LET ran == [t EXCEPT !.last_run = clock, !.run_count = @ + 1]
    IN  CASE t.task_type = "Once" ->
               [ran EXCEPT !.enabled = FALSE, !.status = Disabled, !.next_run = None]
          [] t.task_type = "Interval" ->
               [ran EXCEPT !.next_run = clock + t.every_secs, !.status = Pending]
          [] t.task_type = "Cron" ->
               [ran EXCEPT !.next_run = next_run_from_cron(t.every_secs, clock), !.status = Pending]

\* SchedulerEngine::tick: every task that should run is fired, in stored order
tick(ts, clock) ==
    [i \in DOMAIN ts |-> IF should_run(ts[i], clock) THEN tick_task(ts[i], clock) ELSE ts[i]]

RECURSIVE due_ids(_, _)
\* ids of the tasks that should run, in stored order (the list collected by
\* spawn_scheduler_with_agent before it calls tick)
due_ids(ts, clock) ==
    IF ts = <<>> THEN <<>>
    ELSE (IF should_run(Head(ts), clock) THEN <<Head(ts).id>> ELSE <<>>)
             \o due_ids(Tail(ts), clock)

\* NotifyRouter::record
record(r, priority) == [r EXCEPT ![priority] = @ + 1]

\* one pass of the loop of spawn_scheduler_with_agent, up to the end of the
\* block that holds the engine lock: wait for the interval, collect the due
\* tasks, run tick (which records one normal notification per fired task)
LoopIteration(limit) ==
    /\ triggered = <<>>
    /\ now + CheckIntervalSecs <= limit
    /\ now' = now + CheckIntervalSecs
    /\ triggered' = due_ids(tasks, now')
    /\ tasks' = tick(tasks, now')
    /\ router' = [router EXCEPT !.Normal = @ + Len(due_ids(tasks, now'))]

\* the result of the action of the task at the head of triggered_tasks is
\* handled: `res` is "ok" or the error, `secs` the time the action took
HandleResult(res, secs) ==
    /\ triggered # <<>>
    /\ now' = now + secs
    /\ triggered' = Tail(triggered)
    /\ LET i == find(tasks, Head(triggered))
       IN  IF i = 0
           THEN UNCHANGED <<tasks, router>>
           ELSE IF res = "ok"
                THEN /\ tasks' = [tasks EXCEPT ![i] = mark_success(@)]
                     /\ UNCHANGED router
                ELSE LET t == schedule_retry(tasks[i], res, now')
                     IN  /\ tasks' = [tasks EXCEPT ![i] = t]
                         /\ router' = IF t.status.kind = "RetryPending"
                                      THEN router
                                      ELSE record(router, "Urgent")

\* outcome of executing the action: Notify always succeeds
Results(id) ==
    LET i == find(tasks, id)
    IN  IF i # 0 /\ tasks[i].action = "Notify" THEN {"ok"} ELSE {"ok"} \cup Errors

\* ------------------------------------------------------------------------
\* bizclaw-db : handoffs (sqlite.rs, postgres.rs)
\* ------------------------------------------------------------------------
MaxHandoffs == 3

Callers == {"c1", "c2"}

Sessions == {"s1", "s2"}

Agents == {"a1", "a2"}

\* UPDATE handoffs SET active = FALSE WHERE session_id = $1 AND active = TRUE
deactivate(rows, session_id) ==
    [i \in DOMAIN rows |->
        IF rows[i].session_id = session_id /\ rows[i].active
        THEN [rows[i] EXCEPT !.active = FALSE]
        ELSE rows[i]]

\* Handoff::new(from, to, session_id, reason): a fresh id, active = true
NewHandoff(id, from, to, session_id) ==
    [id |-> id, from_agent |-> from, to_agent |-> to, session_id |-> session_id,
     active |-> TRUE]

\* INSERT INTO handoffs (...) VALUES (...)
insert_handoff(rows, h) == Append(rows, h)

\* SqliteStore::create_handoff: both statements run while the connection
\* mutex is held, with no suspension point in between
SqliteCreateHandoff(c, from, to, session_id) ==
    /\ backend = "sqlite"
    /\ hpc[c].pc = "idle"
    /\ Len(handoffs) < MaxHandoffs
    /\ handoffs' = insert_handoff(deactivate(handoffs, session_id),
                                  NewHandoff(Len(handoffs) + 1, from, to, session_id))
    /\ UNCHANGED <<backend, hpc>>

\* PostgresStore::create_handoff, first statement: the UPDATE is executed on
\* the pool and awaited
PgCreateHandoffDeactivate(c, from, to, session_id) ==
    /\ backend = "postgres"
    /\ hpc[c].pc = "idle"
    /\ Len(handoffs) + Cardinality({d \in Callers : hpc[d].pc # "idle"}) < MaxHandoffs
    /\ handoffs' = deactivate(handoffs, session_id)
    /\ hpc' = [hpc EXCEPT ![c] = [pc |-> "insert", from |-> from, to |-> to, session_id |-> session_id]]
    /\ UNCHANGED backend

\* PostgresStore::create_handoff, second statement: the INSERT, a separate
\* statement on the pool (no transaction spans the two)
PgCreateHandoffInsert(c) ==
    /\ backend = "postgres"
    /\ hpc[c].pc = "insert"
    /\ handoffs' = insert_handoff(handoffs,
                       NewHandoff(Len(handoffs) + 1, hpc[c].from, hpc[c].to,
                                  hpc[c].session_id))
    /\ hpc' = [hpc EXCEPT ![c] = Idle]
    /\ UNCHANGED backend

\* clear_handoff on either backend: one UPDATE statement
clear_handoff(c, session_id) ==
    /\ hpc[c].pc = "idle"
    /\ handoffs' = deactivate(handoffs, session_id)
    /\ UNCHANGED <<backend, hpc>>

\* active_handoff: the active row of the session created last, as an Option
\* (the empty or the one-element sequence)
active_handoff(rows, session_id) ==
    LET act == {i \in DOMAIN rows : rows[i].session_id = session_id /\ rows[i].active}
    IN  IF act = {} THEN <<>> ELSE <<rows[CHOOSE i \in act : \A j \in act : j <= i]>>

\* ------------------------------------------------------------------------
\* bizclaw-db / bizclaw-tools : team tasks
\* ------------------------------------------------------------------------
TaskIdsTeam == {"T1", "T2", "T3"}

\* TeamTask::new plus blocked_by
NewTeamTask(blocked_by) ==
    [status |-> "pending", assigned_to |-> NoneStr, blocked_by |-> blocked_by,
     result |-> NoneStr]

\* update_task on either backend: one unconditional UPDATE ... WHERE id = $4
update_task(tt, id, status, assigned_to, result) ==
    [tt EXCEPT ![id] = [@ EXCEPT !.status = status, !.assigned_to = assigned_to,
                                 !.result = result]]

\* TeamTask::is_claimable(completed_tasks)
is_claimable(t, completed_tasks) ==
    /\ t.status = "pending"
    /\ t.assigned_to = NoneStr
    /\ \A dep \in t.blocked_by : dep \in completed_tasks

\* TeamTasksTool::execute, action "claim"
ToolClaim(agent, id) ==
    /\ <<agent, id>> \notin claimed
    /\ team_tasks' = update_task(team_tasks, id, "in_progress", agent, NoneStr)
    /\ claimed' = claimed \cup {<<agent, id>>}

\* TeamTasksTool::execute, action "complete"
ToolComplete(agent, id) ==
    /\ team_tasks[id].status # "completed"
    /\ team_tasks' = update_task(team_tasks, id, "completed", NoneStr, "done")
    /\ UNCHANGED claimed

\* ------------------------------------------------------------------------
\* bizclaw-platform : pairing codes (db_pg.rs)
\* ------------------------------------------------------------------------
MaxCodes == 3

Slugs == {"acme", "beta"}

\* rand_code(): a six-digit code; here the next code not issued before
rand_code(n) == n + 1

\* PgDb::reset_pairing_code
ResetPairingCode(slug) ==
    /\ issued < MaxCodes
    /\ tenants' = [tenants EXCEPT ![slug].pairing_code = rand_code(issued)]
    /\ issued' = issued + 1
    /\ UNCHANGED <<vp, returned>>

\* PgDb::validate_pairing, first statement:
\* SELECT id FROM tenants WHERE slug=$1 AND pairing_code=$2
ValidatePairingSelect(c, slug, code) ==
    /\ vp[c].pc = "idle"
    /\ IF tenants[slug].pairing_code = code
       THEN vp' = [vp EXCEPT ![c] = [pc |-> "update", id |-> slug, code |-> code]]
       ELSE vp' = vp
    /\ UNCHANGED <<tenants, returned, issued>>

\* PgDb::validate_pairing, second statement:
\* UPDATE tenants SET pairing_code=NULL WHERE id=$1
ValidatePairingClear(c) ==
    /\ vp[c].pc = "update"
    /\ tenants' = [tenants EXCEPT ![vp[c].id].pairing_code = None]
    /\ vp' = [vp EXCEPT ![c].pc = "get"]
    /\ UNCHANGED <<returned, issued>>

\* PgDb::validate_pairing, last statement: get_tenant(id) and return Some
ValidatePairingReturn(c) ==
    /\ vp[c].pc = "get"
    /\ returned' = Append(returned, <<c, vp[c].code>>)
    /\ vp' = [vp EXCEPT ![c] = Idle]
    /\ UNCHANGED <<tenants, issued>>

\* ------------------------------------------------------------------------
\* bizclaw-agent : loop_detector.rs
\* ------------------------------------------------------------------------
MaxCalls == 7

\* a u64 is kept as its eight bytes, least significant first
FnvOffsetBasis == <<37, 35, 34, 132, 228, 156, 242, 203>>

FnvPrime == <<179, 1, 0, 0, 0, 1, 0, 0>>

RECURSIVE Xor(_, _, _)
\* a ^ b on the low `bits` bits
Xor(a, b, bits) ==
    IF bits = 0 THEN 0
    ELSE ((a + b) % 2) + 2 * Xor(a \div 2, b \div 2, bits - 1)

RECURSIVE Carry(_, _, _)
\* the bytes of the column sums cols[k..8] with carry c, overflow dropped
Carry(cols, k, c) ==
    IF k > 8 THEN <<>>
    ELSE <<(cols[k] + c) % 256>> \o Carry(cols, k + 1, (cols[k] + c) \div 256)

RECURSIVE Column(_, _, _, _)
\* sum of x[i] * y[k + 1 - i] for i in 1..n
Column(x, y, k, n) ==
    IF n = 0 THEN 0 ELSE x[n] * y[k + 1 - n] + Column(x, y, k, n - 1)

\* u64::wrapping_mul
wrapping_mul(x, y) == Carry([k \in 1..8 |-> Column(x, y, k, k)], 1, 0)

RECURSIVE hash_from(_, _)
hash_from(hash, bytes) ==
    IF bytes = <<>> THEN hash
    ELSE hash_from(wrapping_mul([hash EXCEPT ![1] = Xor(@, Head(bytes), 8)], FnvPrime),
                   Tail(bytes))

\* LoopDetector::hash_args
hash_args(args) == hash_from(FnvOffsetBasis, args)

\* LoopDetector::with_config
with_config(max_history, max_repetitions) ==
    [history |-> <<>>, max_history |-> max_history,
     max_repetitions |-> max_repetitions, loops_detected |-> 0, tokens_saved |-> 0]

\* LoopDetector::new
new_detector == with_config(20, 3)

\* how many times the entry appears in the history
count_in(history, entry) == Cardinality({i \in DOMAIN history : history[i] = entry})

\* history.push_back(entry); pop_front() when longer than max_history
push_bounded(history, entry, max_history) ==
    IF Len(history) + 1 > max_history
    THEN Tail(Append(history, entry))
    ELSE Append(history, entry)

\* the repetition test with an off-by-one: one more repetition is let through
is_repeat_strict(count, max_repetitions) == count > max_repetitions

\* the repetition test of check: count >= max_repetitions
is_repeat(count, max_repetitions) == count >= max_repetitions

\* the alternation test looking at the last four slots only
is_alternating_four(history) ==
    /\ Len(history) >= 4
    /\ LET len == Len(history)
           a == history[len]
           b == history[len - 1]
       IN  /\ history[len - 2] = a
           /\ history[len - 3] = b

\* the alternation test of check on the history after the push
is_alternating(history) ==
    /\ Len(history) >= 6
    /\ LET len == Len(history)
           a == history[len]
           b == history[len - 1]
       IN  /\ history[len - 2] = a
           /\ history[len - 3] = b
           /\ history[len - 4] = a
           /\ history[len - 5] = b

\* LoopDetector::check from the count on, for the entry
\* (tool_name, args_hash): the detector afterwards and the value returned
check_entry(d, entry) ==
    LET count == count_in(d.history, entry)
        pushed == [d EXCEPT !.history = push_bounded(@, entry, d.max_history)]
        signal == [pushed EXCEPT !.loops_detected = @ + 1, !.tokens_saved = @ + 500]
    IN  IF is_repeat(count, d.max_repetitions)
        THEN [det |-> signal, ret |-> TRUE]
        ELSE IF is_alternating(pushed.history)
             THEN [det |-> signal, ret |-> TRUE]
             ELSE [det |-> pushed, ret |-> FALSE]

\* a clear that leaves the history in place
clear_nothing(d) == d

\* LoopDetector::clear
clear(d) == [d EXCEPT !.history = <<>>]

\* LoopDetector::stats
stats(d) ==
    [history_size |-> Len(d.history), loops_detected |-> d.loops_detected,
     tokens_saved |-> d.tokens_saved]

\* tool calls an agent makes: (tool_name, arguments as bytes)
ToolCalls == { <<"file", <<97>>>>, <<"file", <<98>>>>, <<"shell", <<97>>>> }

\* (max_history, max_repetitions) of the detectors built
Configs == { <<20, 3>>, <<10, 2>>, <<20, 6>>, <<2, 3>>, <<3, 1>> }

\* one stored task of any schedule type, action and retry policy
InitialTasks ==
    { <<[t EXCEPT !.retry = p, !.action = a]>> :
          t \in {TaskOnce("t1", 2, 0), TaskInterval("t1", 3, 0), TaskCron("t1", 4, 0)},
          p \in Policies, a \in TaskActions }

\* ------------------------------------------------------------------------
\* Command allowlist (bizclaw-security/src/allowlist.rs).  A command is the
\* sequence of its characters.  The alphabet below has every character of
\* DANGEROUS_CHARS, the two whitespace characters ' ' and '\n', the path
\* separator and two letters; it has no '.', so every path component is a
\* normal one.
\* ------------------------------------------------------------------------
MaxCmdLen == 3

\* the character '`' is written "backtick"
DANGEROUS_CHARS == {";", "|", "&", "backtick", "$", "(", ")", "{", "}", ">", "<"}

Whitespace == {" ", "\n"}

CmdChars == DANGEROUS_CHARS \cup Whitespace \cup {"/", "l", "s"}

\* the command names an AutonomyConfig can allow
CommandNames == { <<"l">>, <<"l", "s">> }

Commands == UNION { [1..n -> CmdChars] : n \in 0..MaxCmdLen }

RECURSIVE SkipWhitespace(_)
SkipWhitespace(s) ==
    IF s = <<>> THEN <<>>
    ELSE IF Head(s) \in Whitespace THEN SkipWhitespace(Tail(s)) ELSE s

RECURSIVE TakeToken(_)
TakeToken(s) ==
    IF s = <<>> \/ Head(s) \in Whitespace THEN <<>>
    ELSE <<Head(s)>> \o TakeToken(Tail(s))

\* command.split_whitespace().next().unwrap_or("")
first_token(cmd) == TakeToken(SkipWhitespace(cmd))

RECURSIVE StripTrailingSlashes(_)
StripTrailingSlashes(s) ==
    IF s # <<>> /\ s[Len(s)] = "/" THEN StripTrailingSlashes(SubSeq(s, 1, Len(s) - 1)) ELSE s

RECURSIVE LastComponent(_)
LastComponent(s) ==
    IF s = <<>> \/ s[Len(s)] = "/" THEN <<>>
    ELSE LastComponent(SubSeq(s, 1, Len(s) - 1)) \o <<s[Len(s)]>>

\* Path::new(cmd_base).file_name().and_then(|f| f.to_str()).unwrap_or(cmd_base):
\* trailing separators are ignored; a path without a normal final component
\* ("" or "/") has no file name and cmd_base is used.
file_name_or(cmd_base) ==
    LET name == LastComponent(StripTrailingSlashes(cmd_base))
    IN  IF name = <<>> THEN cmd_base ELSE name

is_command_allowed(allowed, cmd) ==
    IF \E i \in DOMAIN cmd : cmd[i] \in DANGEROUS_CHARS
    THEN FALSE
    ELSE LET cmd_base == first_token(cmd)
             cmd_name == file_name_or(cmd_base)
         IN  cmd_name \in allowed \/ cmd_base \in allowed

allow_command(allowed, cmd) == allowed \cup {cmd}

deny_command(allowed, cmd) == allowed \ {cmd}

\* ------------------------------------------------------------------------
\* SSRF guard of the HTTP tool (bizclaw-tools/src/http_request.rs).  A URL
\* is the sequence of its characters.
\* ------------------------------------------------------------------------
LowerOf == [A |-> "a", B |-> "b", C |-> "c", D |-> "d", E |-> "e", F |-> "f", G |-> "g", H |-> "h", I |-> "i", J |-> "j", K |-> "k", L |-> "l", M |-> "m", N |-> "n", O |-> "o", P |-> "p", Q |-> "q", R |-> "r", S |-> "s", T |-> "t", U |-> "u", V |-> "v", W |-> "w", X |-> "x", Y |-> "y", Z |-> "z"]

\* str::to_lowercase
to_lowercase(s) == [i \in DOMAIN s |-> IF s[i] \in DOMAIN LowerOf THEN LowerOf[s[i]] ELSE s[i]]

starts_with(s, p) == Len(s) >= Len(p) /\ SubSeq(s, 1, Len(p)) = p

\* position of the first occurrence of p in s, 0 when there is none
IndexOf(s, p) ==
    LET hits == {i \in 1..(Len(s) - Len(p) + 1) : SubSeq(s, i, i + Len(p) - 1) = p}
    IN  IF hits = {} THEN 0 ELSE CHOOSE i \in hits : \A j \in hits : i <= j

\* str::contains
contains(s, p) == IndexOf(s, p) # 0

\* s.split(p).next(): the piece before the first p
split_first(s, p) ==
    IF contains(s, p) THEN SubSeq(s, 1, IndexOf(s, p) - 1) ELSE s

\* s.split(p).nth(1).unwrap_or(""): the piece between the first p and the next
split_second(s, p) ==
    IF contains(s, p)
    THEN split_first(SubSeq(s, IndexOf(s, p) + Len(p), Len(s)), p)
    ELSE <<>>

blocked_patterns == <<
    <<"1", "2", "7", ".", "0", ".", "0", ".", "1">>,
    <<"l", "o", "c", "a", "l", "h", "o", "s", "t">>,
    <<"0", ".", "0", ".", "0", ".", "0">>,
    <<"[", ":", ":", "1", "]">>,
    <<"[", ":", ":", "0", "]">>,
    <<"1", "6", "9", ".", "2", "5", "4", ".">>,
    <<"m", "e", "t", "a", "d", "a", "t", "a", ".", "g", "o", "o", "g", "l", "e">>,
    <<"m", "e", "t", "a", "d", "a", "t", "a", ".", "a", "w", "s">>,
    <<"1", "0", ".">>,
    <<"1", "9", "2", ".", "1", "6", "8", ".">>,
    <<"1", "7", "2", ".", "1", "6", ".">>,
    <<"1", "7", "2", ".", "1", "7", ".">>,
    <<"1", "7", "2", ".", "1", "8", ".">>,
    <<"1", "7", "2", ".", "1", "9", ".">>,
    <<"1", "7", "2", ".", "2", "0", ".">>,
    <<"1", "7", "2", ".", "2", "1", ".">>,
    <<"1", "7", "2", ".", "2", "2", ".">>,
    <<"1", "7", "2", ".", "2", "3", ".">>,
    <<"1", "7", "2", ".", "2", "4", ".">>,
    <<"1", "7", "2", ".", "2", "5", ".">>,
    <<"1", "7", "2", ".", "2", "6", ".">>,
    <<"1", "7", "2", ".", "2", "7", ".">>,
    <<"1", "7", "2", ".", "2", "8", ".">>,
    <<"1", "7", "2", ".", "2", "9", ".">>,
    <<"1", "7", "2", ".", "3", "0", ".">>,
    <<"1", "7", "2", ".", "3", "1", ".">>
>>

SchemeHttp == <<"h", "t", "t", "p", ":", "/", "/">>

SchemeHttps == <<"h", "t", "t", "p", "s", ":", "/", "/">>

SchemeSep == <<":", "/", "/">>

\* is_url_blocked: NoneStr when the URL may be fetched, else the reason
is_url_blocked(u) ==
    LET lower_url == to_lowercase(u)
        host_part == split_second(lower_url, SchemeSep)
        host == split_first(host_part, <<"/">>)
        host_no_port == split_first(host, <<":">>)
    IN  IF ~starts_with(lower_url, SchemeHttp) /\ ~starts_with(lower_url, SchemeHttps)
        THEN "Only HTTP/HTTPS schemes allowed"
        ELSE IF \E k \in DOMAIN blocked_patterns : contains(host_no_port, blocked_patterns[k])
             THEN "Cannot access internal/private network"
             ELSE NoneStr

\* --- the URLs the guard is applied to ---
DigitChar == <<"0", "1", "2", "3", "4", "5", "6", "7", "8", "9">>

RECURSIVE Decimal(_)
Decimal(n) ==
    IF n < 10 THEN <<DigitChar[n + 1]>> ELSE Decimal(n \div 10) \o <<DigitChar[(n % 10) + 1]>>

Dotted(o) == Decimal(o[1]) \o <<".">> \o Decimal(o[2]) \o <<".">> \o Decimal(o[3]) \o <<".">> \o Decimal(o[4])

HighOctets == {0, 10, 11, 15, 16, 31, 32, 110, 127, 168, 169, 172, 192, 254}

LowOctets == {0, 1, 10}

Ipv4Hosts == { [kind |-> "ipv4", octets |-> <<a, b, c, d>>] :
                 a \in HighOctets, b \in HighOctets, c \in LowOctets, d \in LowOctets }

NamedHosts == { [kind |-> "name", text |-> t] : t \in {
    <<"l", "o", "c", "a", "l", "h", "o", "s", "t">>,
    <<"[", ":", ":", "1", "]">>,
    <<"m", "e", "t", "a", "d", "a", "t", "a", ".", "g", "o", "o", "g", "l", "e", ".", "i", "n", "t", "e", "r", "n", "a", "l">>,
    <<"m", "e", "t", "a", "d", "a", "t", "a", ".", "a", "w", "s", ".", "a", "m", "a", "z", "o", "n", ".", "c", "o", "m">>,
    <<"e", "x", "a", "m", "p", "l", "e", ".", "c", "o", "m">>,
    <<"a", "p", "i", ".", "g", "i", "t", "h", "u", "b", ".", "c", "o", "m">> } }

Hosts == Ipv4Hosts \cup NamedHosts

Schemes == { SchemeHttp, SchemeHttps, <<"H", "T", "T", "P", ":", "/", "/">>, <<"f", "t", "p", ":", "/", "/">>, <<"f", "i", "l", "e", ":", "/", "/">> }

Ports == { <<>>, <<":", "8", "0", "8", "0">> }

Paths == { <<>>, <<"/", "a", "p", "i">> }

host_text(h) == IF h.kind = "ipv4" THEN Dotted(h.octets) ELSE h.text

url_text(u) == u.scheme \o host_text(u.host) \o u.port \o u.path

Urls == [scheme : Schemes, host : Hosts, port : Ports, path : Paths]

\* ------------------------------------------------------------------------
\* Agent links and delegations (bizclaw-core/src/types/orchestration.rs)
\* ------------------------------------------------------------------------
LinkDirections == {"outbound", "inbound", "bidirectional"}

\* AgentLink::new sets max_concurrent to 3; the field is public
AgentLinkNew(source, target, direction, max_concurrent) ==
    [source_agent |-> source, target_agent |-> target,
     direction |-> direction, max_concurrent |-> max_concurrent]

allows(link, from, to) ==
    CASE link.direction = "outbound" -> link.source_agent = from /\ link.target_agent = to
      [] link.direction = "inbound" -> link.target_agent = from /\ link.source_agent = to
      [] OTHER -> \/ link.source_agent = from /\ link.target_agent = to
                  \/ link.target_agent = from /\ link.source_agent = to

DelegationModes == {"Sync", "Async"}

DelegationStatuses == {"Pending", "Running", "Completed", "Failed", "Cancelled"}

TaskStatuses == {"Pending", "InProgress", "Blocked", "Completed", "Failed"}

\* Delegation::new
NewDelegation(id, from, to, mode, created) ==
    [id |-> id, from_agent |-> from, to_agent |-> to, mode |-> mode,
     status |-> "Pending", result |-> NoneStr, error |-> NoneStr,
     created_at |-> created, completed_at |-> None]

\* ------------------------------------------------------------------------
\* DataStore backends (bizclaw-db/src/sqlite.rs, postgres.rs): delegations
\* and team tasks.  A table is a function from the ids present to rows.
\* SQLite keeps its timestamps as text, Postgres as TIMESTAMPTZ.
\* ------------------------------------------------------------------------
MaxStoreTime == 2

\* serde_json::to_string(..).trim_matches('"') of the enums (rename_all)
SerdeName ==
    [Pending |-> "pending", Running |-> "running", Completed |-> "completed",
     Failed |-> "failed", Cancelled |-> "cancelled", InProgress |-> "in_progress",
     Blocked |-> "blocked", Sync |-> "sync", Async |-> "async"]

parse_delegation_mode(s) == IF s = "async" THEN "Async" ELSE "Sync"

parse_delegation_status(s) ==
    CASE s = "running" -> "Running"
      [] s = "completed" -> "Completed"
      [] s = "failed" -> "Failed"
      [] s = "cancelled" -> "Cancelled"
      [] OTHER -> "Pending"

parse_task_status(s) ==
    CASE s = "in_progress" -> "InProgress"
      [] s = "blocked" -> "Blocked"
      [] s = "completed" -> "Completed"
      [] s = "failed" -> "Failed"
      [] OTHER -> "Pending"

\* DateTime::to_rfc3339: "2026-01-01T00:00:00+00:00"
to_rfc3339(t) == [fmt |-> "rfc3339", at |-> t]

\* SQLite datetime('now'): "2026-01-01 00:00:00"
sqlite_datetime_now(clock) == [fmt |-> "sql", at |-> clock]

\* a NULL in a text column
SqlNull == [fmt |-> "null", at |-> None]

\* sqlite.rs parse_datetime: parse_from_rfc3339, and Utc::now() when that fails
parse_datetime(s, clock) == IF s.fmt = "rfc3339" THEN s.at ELSE clock

\* the statuses for which update_delegation stamps completed_at
StampsCompletedAt(status) == status = "Completed" \/ status = "Failed"

Put(table, id, row) == [k \in DOMAIN table \cup {id} |-> IF k = id THEN row ELSE table[k]]

\* --- SqliteStore ---
sqlite_create_delegation(db, d) ==
    IF d.id \in DOMAIN db.delegations
    THEN [db |-> db, ret |-> "Err"]
    ELSE [db |-> [db EXCEPT !.delegations = Put(@, d.id,
                    [id |-> d.id, from_agent |-> d.from_agent, to_agent |-> d.to_agent,
                     mode |-> SerdeName[d.mode], status |-> SerdeName[d.status],
                     result |-> NoneStr, error |-> NoneStr,
                     created_at |-> to_rfc3339(d.created_at), completed_at |-> SqlNull])],
          ret |-> "Ok"]

sqlite_update_delegation(db, id, status, result, error, clock) ==
    LET completed == IF StampsCompletedAt(status) THEN to_rfc3339(clock) ELSE SqlNull
    IN  [db |-> IF id \in DOMAIN db.delegations
                THEN [db EXCEPT !.delegations[id] =
                        [@ EXCEPT !.status = SerdeName[status], !.result = result,
                                  !.error = error, !.completed_at = completed]]
                ELSE db,
         ret |-> "Ok"]

sqlite_get_delegation(db, id, clock) ==
    IF id \in DOMAIN db.delegations
    THEN LET r == db.delegations[id]
         IN  <<[id |-> r.id, from_agent |-> r.from_agent, to_agent |-> r.to_agent,
                mode |-> parse_delegation_mode(r.mode),
                status |-> parse_delegation_status(r.status),
                result |-> r.result, error |-> r.error,
                created_at |-> parse_datetime(r.created_at, clock),
                completed_at |-> IF r.completed_at = SqlNull THEN None
                                 ELSE parse_datetime(r.completed_at, clock)]>>
    ELSE <<>>

sqlite_create_task(db, t) ==
    IF t.id \in DOMAIN db.team_tasks
    THEN [db |-> db, ret |-> "Err"]
    ELSE [db |-> [db EXCEPT !.team_tasks = Put(@, t.id,
                    [id |-> t.id, status |-> SerdeName[t.status], assigned_to |-> t.assigned_to,
                     result |-> t.result, created_at |-> to_rfc3339(t.created_at),
                     updated_at |-> to_rfc3339(t.updated_at)])],
          ret |-> "Ok"]

sqlite_update_task(db, id, status, assigned_to, result, clock) ==
    [db |-> IF id \in DOMAIN db.team_tasks
            THEN [db EXCEPT !.team_tasks[id] =
                    [@ EXCEPT !.status = SerdeName[status], !.assigned_to = assigned_to,
                              !.result = result, !.updated_at = sqlite_datetime_now(clock)]]
            ELSE db,
     ret |-> "Ok"]

sqlite_get_task(db, id, clock) ==
    IF id \in DOMAIN db.team_tasks
    THEN LET r == db.team_tasks[id]
         IN  <<[id |-> r.id, status |-> parse_task_status(r.status),
                assigned_to |-> r.assigned_to, result |-> r.result,
                created_at |-> parse_datetime(r.created_at, clock),
                updated_at |-> parse_datetime(r.updated_at, clock)]>>
    ELSE <<>>

\* --- PostgresStore ---
pg_create_delegation(db, d) ==
    IF d.id \in DOMAIN db.delegations
    THEN [db |-> db, ret |-> "Err"]
    ELSE [db |-> [db EXCEPT !.delegations = Put(@, d.id,
                    [id |-> d.id, from_agent |-> d.from_agent, to_agent |-> d.to_agent,
                     mode |-> SerdeName[d.mode], status |-> SerdeName[d.status],
                     result |-> NoneStr, error |-> NoneStr,
                     created_at |-> d.created_at, completed_at |-> None])],
          ret |-> "Ok"]

pg_update_delegation(db, id, status, result, error, clock) ==
    LET completed == IF StampsCompletedAt(status) THEN clock ELSE None
    IN  [db |-> IF id \in DOMAIN db.delegations
                THEN [db EXCEPT !.delegations[id] =
                        [@ EXCEPT !.status = SerdeName[status], !.result = result,
                                  !.error = error, !.completed_at = completed]]
                ELSE db,
         ret |-> "Ok"]

pg_get_delegation(db, id) ==
    IF id \in DOMAIN db.delegations
    THEN LET r == db.delegations[id]
         IN  <<[id |-> r.id, from_agent |-> r.from_agent, to_agent |-> r.to_agent,
                mode |-> parse_delegation_mode(r.mode),
                status |-> parse_delegation_status(r.status),
                result |-> r.result, error |-> r.error,
                created_at |-> r.created_at, completed_at |-> r.completed_at]>>
    ELSE <<>>

pg_create_task(db, t) ==
    IF t.id \in DOMAIN db.team_tasks
    THEN [db |-> db, ret |-> "Err"]
    ELSE [db |-> [db EXCEPT !.team_tasks = Put(@, t.id,
                    [id |-> t.id, status |-> SerdeName[t.status], assigned_to |-> t.assigned_to,
                     result |-> t.result, created_at |-> t.created_at,
                     updated_at |-> t.updated_at])],
          ret |-> "Ok"]

pg_update_task(db, id, status, assigned_to, result, clock) ==
    [db |-> IF id \in DOMAIN db.team_tasks
            THEN [db EXCEPT !.team_tasks[id] =
                    [@ EXCEPT !.status = SerdeName[status], !.assigned_to = assigned_to,
                              !.result = result, !.updated_at = clock]]
            ELSE db,
     ret |-> "Ok"]

pg_get_task(db, id) ==
    IF id \in DOMAIN db.team_tasks
    THEN LET r == db.team_tasks[id]
         IN  <<[id |-> r.id, status |-> parse_task_status(r.status),
                assigned_to |-> r.assigned_to, result |-> r.result,
                created_at |-> r.created_at, updated_at |-> r.updated_at]>>
    ELSE <<>>

\* DataStore::active_delegation_count
active_delegation_count(rows, to) ==
    Cardinality({i \in DOMAIN rows : rows[i].to_agent = to
                                     /\ rows[i].status \in {"pending", "running"}})

EmptyDb == [delegations |-> <<>>, team_tasks |-> <<>>]

\* the arguments the operations are called with
DelegationIds == {"d1"}

DelegationUpdates ==
    { <<"Pending", NoneStr, NoneStr>>, <<"Running", NoneStr, NoneStr>>,
      <<"Completed", "done", NoneStr>>, <<"Failed", NoneStr, "e1">>,
      <<"Cancelled", NoneStr, NoneStr>> }

StoreTaskIds == {"k1"}

StoreTaskUpdates ==
    { <<"InProgress", "a1", NoneStr>>, <<"Completed", NoneStr, "done">>,
      <<"Pending", NoneStr, NoneStr>> }

\* TeamTask::new, with the fields the store operations touch
StoreTeamTask(id, created) ==
    [id |-> id, status |-> "Pending", assigned_to |-> NoneStr, result |-> NoneStr,
     created_at |-> created, updated_at |-> created]

\* ------------------------------------------------------------------------
\* Orchestrator (bizclaw-agent/src/orchestrator.rs).  The orchestrator is
\* shared by the request handlers behind one lock (orch_lock); send_to,
\* send, delegate and broadcast take &mut self, so a handler calls them
\* through the guard of that lock and keeps the guard until the call has
\* returned.  Each agent sits behind its own lock (agent_lock).
\* ------------------------------------------------------------------------
MaxMessages == 2
MaxPending == 1

OrchHandlers == {"h1", "h2"}

\* names a request can carry: the agents of the orchestrator and an unknown one
AgentNames == Agents \cup {"ghost"}

DefaultAgent == "a1"

TurnResults == {"ok", "err"}

TotalMessages == message_count["a1"] + message_count["a2"]

\* state.orchestrator.lock().await
LockOrchestrator(h) ==
    /\ hreq[h].pc = "idle"
    /\ orch_lock = NoneStr
    /\ orch_lock' = h
    /\ hreq' = [hreq EXCEPT ![h] = [pc |-> "locked"]]
    /\ UNCHANGED <<agent_lock, message_count, message_log, links, delegations, pending_delegations>>

\* Orchestrator::list_agents through the guard, which is then dropped
list_agents(h) ==
    /\ hreq[h].pc = "locked"
    /\ orch_lock' = NoneStr
    /\ hreq' = [hreq EXCEPT ![h] = Idle]
    /\ UNCHANGED <<agent_lock, message_count, message_log, links, delegations, pending_delegations>>

\* the part of send_to / delegate before the await: look the agent up, count
\* the message, clone the Arc
BeginTurn(h, op, from, to, rest) ==
    IF to \notin Agents
    THEN /\ hreq' = [hreq EXCEPT ![h] = [pc |-> "returned", op |-> op, from |-> from,
                                       to |-> to, result |-> "not found"]]
         /\ UNCHANGED message_count
    ELSE /\ message_count' = [message_count EXCEPT ![to] = @ + 1]
         /\ hreq' = [hreq EXCEPT ![h] = [pc |-> "await_inner", op |-> op, from |-> from,
                                       to |-> to, rest |-> rest]]

send_to(h, agent_name) ==
    /\ hreq[h].pc = "locked"
    /\ TotalMessages < MaxMessages
    /\ BeginTurn(h, "send_to", "user", agent_name, <<>>)
    /\ UNCHANGED <<orch_lock, agent_lock, message_log, links, delegations, pending_delegations>>

send(h) ==
    /\ hreq[h].pc = "locked"
    /\ TotalMessages < MaxMessages
    /\ BeginTurn(h, "send", "user", DefaultAgent, <<>>)
    /\ UNCHANGED <<orch_lock, agent_lock, message_log, links, delegations, pending_delegations>>

delegate(h, from_agent, to_agent) ==
    /\ hreq[h].pc = "locked"
    /\ TotalMessages < MaxMessages
    /\ BeginTurn(h, "delegate", from_agent, to_agent, <<>>)
    /\ UNCHANGED <<orch_lock, agent_lock, message_log, links, delegations, pending_delegations>>

\* broadcast: send_to for every key of the agents map, in the map's order
broadcast(h, agent_names) ==
    /\ hreq[h].pc = "locked"
    /\ TotalMessages + Len(agent_names) <= MaxMessages
    /\ BeginTurn(h, "broadcast", "user", Head(agent_names), Tail(agent_names))
    /\ UNCHANGED <<orch_lock, agent_lock, message_log, links, delegations, pending_delegations>>

\* arc.lock().await: the agent's own lock
LockAgent(h) ==
    /\ hreq[h].pc = "await_inner"
    /\ agent_lock[hreq[h].to] = NoneStr
    /\ agent_lock' = [agent_lock EXCEPT ![hreq[h].to] = h]
    /\ hreq' = [hreq EXCEPT ![h].pc = "turn"]
    /\ UNCHANGED <<orch_lock, message_count, message_log, links, delegations, pending_delegations>>

AgentMessage(from, to, response) == [from |-> from, to |-> to, response |-> response]

\* process() returns: the agent's lock is released; on Ok the message is
\* logged, on Err the ? operator returns at once.  A broadcast goes on with the next name.
ProcessReturns(h, res) ==
    LET r == hreq[h]
    IN  /\ r.pc = "turn"
        /\ agent_lock' = [agent_lock EXCEPT ![r.to] = NoneStr]
        /\ message_log' = IF res = "ok"
                          THEN Append(message_log, AgentMessage(r.from, r.to, res))
                          ELSE message_log
        /\ IF r.op = "broadcast" /\ r.rest # <<>>
           THEN /\ message_count' = [message_count EXCEPT ![Head(r.rest)] = @ + 1]
                /\ hreq' = [hreq EXCEPT ![h] = [r EXCEPT !.pc = "await_inner",
                                                       !.to = Head(r.rest),
                                                       !.rest = Tail(r.rest)]]
           ELSE /\ hreq' = [hreq EXCEPT ![h] = [pc |-> "returned", op |-> r.op, from |-> r.from,
                                              to |-> r.to, result |-> res]]
                /\ UNCHANGED message_count
        /\ UNCHANGED <<orch_lock, links, delegations, pending_delegations>>

\* the call has returned to the handler, which drops the guard
UnlockOrchestrator(h) ==
    /\ hreq[h].pc = "returned"
    /\ orch_lock' = NoneStr
    /\ hreq' = [hreq EXCEPT ![h] = Idle]
    /\ UNCHANGED <<agent_lock, message_count, message_log, links, delegations, pending_delegations>>

\* DelegateTool::execute: the delegation is queued when the target exists
DelegateToolExecute(to_agent, mode) ==
    /\ Len(pending_delegations) < MaxPending
    /\ pending_delegations' =
         IF to_agent \in Agents
         THEN Append(pending_delegations, [to_agent |-> to_agent, mode |-> mode])
         ELSE pending_delegations
    /\ UNCHANGED <<orch_lock, agent_lock, message_count, message_log, hreq, links, delegations>>

\* link tables and delegation tables a store can hold when the orchestrator starts
LinkTables ==
    { {},
      {AgentLinkNew("a1", "a2", "outbound", 3)},
      {AgentLinkNew("a1", "a2", "inbound", 1)},
      {AgentLinkNew("a1", "a2", "bidirectional", 1)} }

DelegationTables ==
    { EmptyDb.delegations,
      pg_create_delegation(EmptyDb, NewDelegation("d1", "a1", "a2", "Sync", 0)).db.delegations }

\* ------------------------------------------------------------------------
\* Initial states
\* ------------------------------------------------------------------------
SchedIdle ==
    /\ now = 0
    /\ tasks = <<>>
    /\ triggered = <<>>
    /\ router = [Normal |-> 0, Urgent |-> 0]

HandoffIdle ==
    /\ backend = "sqlite"
    /\ handoffs = <<>>
    /\ hpc = [c \in Callers |-> Idle]

TeamIdle ==
    /\ team_tasks = [id \in TaskIdsTeam |-> NewTeamTask({})]
    /\ claimed = {}

PairIdle ==
    /\ tenants = [s \in Slugs |-> [pairing_code |-> None]]
    /\ vp = [c \in Callers |-> Idle]
    /\ returned = <<>>
    /\ issued = 0

LoopIdle ==
    /\ det = new_detector
    /\ log = <<>>

GuardIdle ==
    /\ allowed_commands = {}
    /\ command = <<>>
    /\ cmd_ret = Idle
    /\ url = <<>>
    /\ url_ret = Idle

OrchIdle ==
    /\ orch_lock = NoneStr
    /\ agent_lock = [a \in Agents |-> NoneStr]
    /\ message_count = [a \in Agents |-> 0]
    /\ message_log = <<>>
    /\ hreq = [h \in OrchHandlers |-> Idle]
    /\ links = {}
    /\ delegations = <<>>
    /\ pending_delegations = <<>>

StoreIdle ==
    /\ store_now = 0
    /\ sq = EmptyDb
    /\ pg = EmptyDb
    /\ store_ret = Idle

ToolIdle ==
    /\ tool_ret = Idle
    /\ routed = Idle

PoolIdle ==
    /\ agents = <<>>
    /\ default_agent = NoneStr
    /\ pool_ret = Idle

DiskIdle == saved_tasks = <<>>

RosterIdle ==
    /\ team = <<>>
    /\ team_rows = Idle
    /\ team_loaded = Idle

AtomIdle ==
    /\ handoff_ret = Idle

InboxIdle ==
    /\ team_messages = <<>>
    /\ msg_seen = {}

PolicyIdle ==
    /\ check_ret = Idle

McpIdle ==
    /\ next_id = 1
    /\ server_in = <<>>
    /\ server_out = <<>>
    /\ req = Idle
    /\ resp = Idle

FlowIdle ==
    /\ wf = Idle
    /\ wf_state = Idle
    /\ wf_idx = 0
    /\ wf_errors = {}

LateIdle == RosterIdle /\ AtomIdle /\ InboxIdle /\ PolicyIdle /\ McpIdle /\ FlowIdle

ExceptRosterIdle == AtomIdle /\ InboxIdle /\ PolicyIdle /\ McpIdle /\ FlowIdle

ExceptAtomIdle == RosterIdle /\ InboxIdle /\ PolicyIdle /\ McpIdle /\ FlowIdle

ExceptInboxIdle == RosterIdle /\ AtomIdle /\ PolicyIdle /\ McpIdle /\ FlowIdle

ExceptPolicyIdle == RosterIdle /\ AtomIdle /\ InboxIdle /\ McpIdle /\ FlowIdle

ExceptMcpIdle == RosterIdle /\ AtomIdle /\ InboxIdle /\ PolicyIdle /\ FlowIdle

ExceptFlowIdle == RosterIdle /\ AtomIdle /\ InboxIdle /\ PolicyIdle /\ McpIdle

ExtIdle == ToolIdle /\ PoolIdle /\ DiskIdle /\ LateIdle

CoreIdle == SchedIdle /\ HandoffIdle /\ TeamIdle /\ PairIdle /\ LoopIdle

SchedInit ==
    /\ now = 0
    /\ tasks \in InitialTasks
    /\ triggered = <<>>
    /\ router = [Normal |-> 0, Urgent |-> 0]
    /\ HandoffIdle /\ TeamIdle /\ PairIdle /\ LoopIdle
    /\ GuardIdle /\ OrchIdle /\ StoreIdle /\ ExtIdle

\* ------------------------------------------------------------------------
\* Scheduler: the loop of spawn_scheduler_with_agent and the engine calls
\* ------------------------------------------------------------------------
Tick == LoopIteration(MaxTime) /\ UNCHANGED <<handoffVars, teamVars, pairVars, loopVars, guardVars, orchVars, storeVars, extVars>>

ActionSucceeds ==
    /\ triggered # <<>>
    /\ \E secs \in 0..MaxActionSecs : HandleResult("ok", secs)
    /\ UNCHANGED <<handoffVars, teamVars, pairVars, loopVars, guardVars, orchVars, storeVars, extVars>>

ActionFails ==
    /\ triggered # <<>>
    /\ \E e \in Results(Head(triggered)) \ {"ok"} :
           \E secs \in 0..MaxActionSecs : HandleResult(e, secs)
    /\ UNCHANGED <<handoffVars, teamVars, pairVars, loopVars, guardVars, orchVars, storeVars, extVars>>

\* SchedulerEngine::set_enabled, called through the engine lock at any time
SetEnabled ==
    /\ \E id \in {tasks[i].id : i \in DOMAIN tasks}, enabled \in BOOLEAN :
           tasks' = [tasks EXCEPT ![find(tasks, id)] = set_enabled(@, enabled)]
    /\ UNCHANGED <<now, triggered, router>>
    /\ UNCHANGED <<handoffVars, teamVars, pairVars, loopVars, guardVars, orchVars, storeVars, extVars>>

Init == SchedInit

Next == Tick \/ ActionSucceeds \/ ActionFails \/ SetEnabled

Spec == Init /\ [][Next]_vars

\* ------------------------------------------------------------------------
\* The retry ladder: one task with the default retry policy whose action
\* fails at once on every attempt; no other call touches the engine
\* ------------------------------------------------------------------------
LadderInit ==
    /\ now = 0
    /\ tasks \in { <<[t EXCEPT !.action = "AgentPrompt"]>> :
                      t \in {TaskOnce("t1", LadderStart, 0),
                             TaskInterval("t1", LadderStart, 0),
                             TaskCron("t1", LadderStart, 0)} }
    /\ triggered = <<>>
    /\ router = [Normal |-> 0, Urgent |-> 0]
    /\ HandoffIdle /\ TeamIdle /\ PairIdle /\ LoopIdle
    /\ GuardIdle /\ OrchIdle /\ StoreIdle /\ ExtIdle

LadderTick == LoopIteration(LadderMaxTime) /\ UNCHANGED <<handoffVars, teamVars, pairVars, loopVars, guardVars, orchVars, storeVars, extVars>>

LadderFail ==
    /\ \E e \in Errors : HandleResult(e, 0)
    /\ UNCHANGED <<handoffVars, teamVars, pairVars, loopVars, guardVars, orchVars, storeVars, extVars>>

LadderNext == LadderTick \/ LadderFail

SpecLadder == LadderInit /\ [][LadderNext]_vars

\* ------------------------------------------------------------------------
\* Handoffs: concurrent callers on one store
\* ------------------------------------------------------------------------
HandoffInit ==
    /\ backend \in {"sqlite", "postgres"}
    /\ handoffs = <<>>
    /\ hpc = [c \in Callers |-> Idle]
    /\ SchedIdle /\ TeamIdle /\ PairIdle /\ LoopIdle
    /\ GuardIdle /\ OrchIdle /\ StoreIdle /\ ExtIdle

CreateHandoffSqlite ==
    /\ \E c \in Callers, from \in Agents, to \in Agents, s \in Sessions :
           SqliteCreateHandoff(c, from, to, s)
    /\ UNCHANGED <<schedVars, teamVars, pairVars, loopVars, guardVars, orchVars, storeVars, extVars>>

CreateHandoffPgDeactivate ==
    /\ \E c \in Callers, from \in Agents, to \in Agents, s \in Sessions :
           PgCreateHandoffDeactivate(c, from, to, s)
    /\ UNCHANGED <<schedVars, teamVars, pairVars, loopVars, guardVars, orchVars, storeVars, extVars>>

CreateHandoffPgInsert ==
    /\ \E c \in Callers : PgCreateHandoffInsert(c)
    /\ UNCHANGED <<schedVars, teamVars, pairVars, loopVars, guardVars, orchVars, storeVars, extVars>>

ClearHandoff ==
    /\ \E c \in Callers, s \in Sessions : clear_handoff(c, s)
    /\ UNCHANGED <<schedVars, teamVars, pairVars, loopVars, guardVars, orchVars, storeVars, extVars>>

HandoffNext ==
    CreateHandoffSqlite \/ CreateHandoffPgDeactivate \/ CreateHandoffPgInsert \/ ClearHandoff

SpecHandoff == HandoffInit /\ [][HandoffNext]_vars

\* ------------------------------------------------------------------------
\* Team task board: agents claim and complete through the team_tasks tool
\* ------------------------------------------------------------------------
TeamInit ==
    /\ team_tasks = [id \in TaskIdsTeam |->
                        IF id = "T2" THEN NewTeamTask({"T1"}) ELSE NewTeamTask({})]
    /\ claimed = {}
    /\ SchedIdle /\ HandoffIdle /\ PairIdle /\ LoopIdle
    /\ GuardIdle /\ OrchIdle /\ StoreIdle /\ ExtIdle

Claim ==
    /\ \E a \in Agents, id \in TaskIdsTeam : ToolClaim(a, id)
    /\ UNCHANGED <<schedVars, handoffVars, pairVars, loopVars, guardVars, orchVars, storeVars, extVars>>

Complete ==
    /\ \E a \in Agents, id \in TaskIdsTeam : ToolComplete(a, id)
    /\ UNCHANGED <<schedVars, handoffVars, pairVars, loopVars, guardVars, orchVars, storeVars, extVars>>

TeamNext == Claim \/ Complete

SpecTeam == TeamInit /\ [][TeamNext]_vars

\* ------------------------------------------------------------------------
\* Pairing: tenants created with a pairing code, concurrent validations
\* ------------------------------------------------------------------------
PairInit ==
    /\ tenants = [s \in Slugs |-> [pairing_code |-> IF s = "acme" THEN rand_code(0) ELSE None]]
    /\ vp = [c \in Callers |-> Idle]
    /\ returned = <<>>
    /\ issued = 1
    /\ SchedIdle /\ HandoffIdle /\ TeamIdle /\ LoopIdle
    /\ GuardIdle /\ OrchIdle /\ StoreIdle /\ ExtIdle

ResetPairing ==
    /\ \E s \in Slugs : ResetPairingCode(s)
    /\ UNCHANGED <<schedVars, handoffVars, teamVars, loopVars, guardVars, orchVars, storeVars, extVars>>

ValidateSelect ==
    /\ \E c \in Callers, s \in Slugs, code \in 1..MaxCodes : ValidatePairingSelect(c, s, code)
    /\ UNCHANGED <<schedVars, handoffVars, teamVars, loopVars, guardVars, orchVars, storeVars, extVars>>

ValidateClear ==
    /\ \E c \in Callers : ValidatePairingClear(c)
    /\ UNCHANGED <<schedVars, handoffVars, teamVars, loopVars, guardVars, orchVars, storeVars, extVars>>

ValidateReturn ==
    /\ \E c \in Callers : ValidatePairingReturn(c)
    /\ UNCHANGED <<schedVars, handoffVars, teamVars, loopVars, guardVars, orchVars, storeVars, extVars>>

PairNext == ResetPairing \/ ValidateSelect \/ ValidateClear \/ ValidateReturn

SpecPairing == PairInit /\ [][PairNext]_vars

\* ------------------------------------------------------------------------
\* Loop detector: one detector, any sequence of check and clear calls
\* ------------------------------------------------------------------------
LoopInit ==
    /\ det \in {with_config(c[1], c[2]) : c \in Configs}
    /\ log = <<>>
    /\ SchedIdle /\ HandoffIdle /\ TeamIdle /\ PairIdle
    /\ GuardIdle /\ OrchIdle /\ StoreIdle /\ ExtIdle

\* LoopDetector::check(tool_name, arguments)
Check ==
    /\ Len(log) < MaxCalls
    /\ \E call \in ToolCalls :
           LET entry == <<call[1], hash_args(call[2])>>
               r == check_entry(det, entry)
           IN  /\ det' = r.det
               /\ log' = Append(log, [op |-> "check", entry |-> entry, ret |-> r.ret])
    /\ UNCHANGED <<schedVars, handoffVars, teamVars, pairVars, guardVars, orchVars, storeVars, extVars>>

\* LoopDetector::clear()
Clear ==
    /\ Len(log) < MaxCalls
    /\ det' = clear(det)
    /\ log' = Append(log, [op |-> "clear", entry |-> <<>>, ret |-> FALSE])
    /\ UNCHANGED <<schedVars, handoffVars, teamVars, pairVars, guardVars, orchVars, storeVars, extVars>>

LoopNext == Check \/ Clear

SpecLoop == LoopInit /\ [][LoopNext]_vars

\* ------------------------------------------------------------------------
\* Command allowlist: an Allowlist built from a configuration, changed by
\* allow_command / deny_command, then asked about one command
\* ------------------------------------------------------------------------
AllowlistInit ==
    /\ allowed_commands \in SUBSET CommandNames
    /\ command \in Commands
    /\ cmd_ret = Idle
    /\ url = <<>>
    /\ url_ret = Idle
    /\ CoreIdle /\ OrchIdle /\ StoreIdle /\ ExtIdle

AllowCommand ==
    /\ cmd_ret.pc = "idle"
    /\ \E c \in CommandNames \ allowed_commands :
           allowed_commands' = allow_command(allowed_commands, c)
    /\ UNCHANGED <<command, cmd_ret, url, url_ret>>
    /\ UNCHANGED <<coreVars, orchVars, storeVars, extVars>>

DenyCommand ==
    /\ cmd_ret.pc = "idle"
    /\ \E c \in allowed_commands : allowed_commands' = deny_command(allowed_commands, c)
    /\ UNCHANGED <<command, cmd_ret, url, url_ret>>
    /\ UNCHANGED <<coreVars, orchVars, storeVars, extVars>>

IsCommandAllowed ==
    /\ cmd_ret.pc = "idle"
    /\ cmd_ret' = [pc |-> "done", allowed |-> is_command_allowed(allowed_commands, command)]
    /\ UNCHANGED <<allowed_commands, command, url, url_ret>>
    /\ UNCHANGED <<coreVars, orchVars, storeVars, extVars>>

AllowlistNext == AllowCommand \/ DenyCommand \/ IsCommandAllowed

SpecAllowlist == AllowlistInit /\ [][AllowlistNext]_vars

\* ------------------------------------------------------------------------
\* SSRF guard: is_url_blocked applied to one URL
\* ------------------------------------------------------------------------
SsrfInit ==
    /\ url \in Urls
    /\ url_ret = Idle
    /\ allowed_commands = {}
    /\ command = <<>>
    /\ cmd_ret = Idle
    /\ CoreIdle /\ OrchIdle /\ StoreIdle /\ ExtIdle

IsUrlBlocked ==
    /\ url_ret.pc = "idle"
    /\ url_ret' = [pc |-> "done", blocked |-> is_url_blocked(url_text(url))]
    /\ UNCHANGED <<allowed_commands, command, cmd_ret, url>>
    /\ UNCHANGED <<coreVars, orchVars, storeVars, extVars>>

SsrfNext == IsUrlBlocked

SpecSsrf == SsrfInit /\ [][SsrfNext]_vars

\* ------------------------------------------------------------------------
\* Orchestrator: request handlers sharing one orchestrator
\* ------------------------------------------------------------------------
OrchInit ==
    /\ orch_lock = NoneStr
    /\ agent_lock = [a \in Agents |-> NoneStr]
    /\ message_count = [a \in Agents |-> 0]
    /\ message_log = <<>>
    /\ hreq = [h \in OrchHandlers |-> Idle]
    /\ links \in LinkTables
    /\ delegations \in DelegationTables
    /\ pending_delegations = <<>>
    /\ CoreIdle /\ GuardIdle /\ StoreIdle /\ ExtIdle

OrchLock ==
    /\ \E h \in OrchHandlers : LockOrchestrator(h)
    /\ UNCHANGED <<coreVars, guardVars, storeVars, extVars>>

OrchListAgents ==
    /\ \E h \in OrchHandlers : list_agents(h)
    /\ UNCHANGED <<coreVars, guardVars, storeVars, extVars>>

OrchSendTo ==
    /\ \E h \in OrchHandlers, a \in AgentNames : send_to(h, a)
    /\ UNCHANGED <<coreVars, guardVars, storeVars, extVars>>

OrchSend ==
    /\ \E h \in OrchHandlers : send(h)
    /\ UNCHANGED <<coreVars, guardVars, storeVars, extVars>>

OrchDelegate ==
    /\ \E h \in OrchHandlers, from \in Agents, to \in AgentNames : delegate(h, from, to)
    /\ UNCHANGED <<coreVars, guardVars, storeVars, extVars>>

OrchBroadcast ==
    /\ \E h \in OrchHandlers, order \in {<<"a1", "a2">>, <<"a2", "a1">>} : broadcast(h, order)
    /\ UNCHANGED <<coreVars, guardVars, storeVars, extVars>>

OrchLockAgent ==
    /\ \E h \in OrchHandlers : LockAgent(h)
    /\ UNCHANGED <<coreVars, guardVars, storeVars, extVars>>

OrchProcessReturns ==
    /\ \E h \in OrchHandlers, res \in TurnResults : ProcessReturns(h, res)
    /\ UNCHANGED <<coreVars, guardVars, storeVars, extVars>>

OrchUnlock ==
    /\ \E h \in OrchHandlers : UnlockOrchestrator(h)
    /\ UNCHANGED <<coreVars, guardVars, storeVars, extVars>>

OrchDelegateTool ==
    /\ \E to \in AgentNames, mode \in {"sync", "async"} : DelegateToolExecute(to, mode)
    /\ UNCHANGED <<coreVars, guardVars, storeVars, extVars>>

OrchNext ==
    \/ OrchLock \/ OrchListAgents \/ OrchSendTo \/ OrchSend \/ OrchDelegate
    \/ OrchBroadcast \/ OrchLockAgent \/ OrchProcessReturns \/ OrchUnlock
    \/ OrchDelegateTool

SpecOrch == OrchInit /\ [][OrchNext]_vars

\* ------------------------------------------------------------------------
\* DataStore: the same calls made on a SqliteStore and on a PostgresStore
\* ------------------------------------------------------------------------
StoreInit ==
    /\ store_now = 0
    /\ sq = EmptyDb
    /\ pg = EmptyDb
    /\ store_ret = Idle
    /\ CoreIdle /\ GuardIdle /\ OrchIdle /\ ExtIdle

StoreAdvance ==
    /\ store_now < MaxStoreTime
    /\ store_now' = store_now + 1
    /\ UNCHANGED <<sq, pg, store_ret>>
    /\ UNCHANGED <<coreVars, guardVars, orchVars, extVars>>

Called(op, s, p) == [pc |-> "done", op |-> op, sqlite |-> s, postgres |-> p]

StoreCreateDelegation ==
    /\ \E id \in DelegationIds, mode \in DelegationModes :
         LET d == NewDelegation(id, "a1", "a2", mode, store_now)
             s == sqlite_create_delegation(sq, d)
             p == pg_create_delegation(pg, d)
         IN  /\ sq' = s.db
             /\ pg' = p.db
             /\ store_ret' = Called("create_delegation", s.ret, p.ret)
    /\ UNCHANGED store_now
    /\ UNCHANGED <<coreVars, guardVars, orchVars, extVars>>

StoreUpdateDelegation ==
    /\ \E id \in DelegationIds, u \in DelegationUpdates :
         LET s == sqlite_update_delegation(sq, id, u[1], u[2], u[3], store_now)
             p == pg_update_delegation(pg, id, u[1], u[2], u[3], store_now)
         IN  /\ sq' = s.db
             /\ pg' = p.db
             /\ store_ret' = Called("update_delegation", s.ret, p.ret)
    /\ UNCHANGED store_now
    /\ UNCHANGED <<coreVars, guardVars, orchVars, extVars>>

StoreGetDelegation ==
    /\ \E id \in DelegationIds :
         store_ret' = Called("get_delegation", sqlite_get_delegation(sq, id, store_now),
                             pg_get_delegation(pg, id))
    /\ UNCHANGED <<store_now, sq, pg>>
    /\ UNCHANGED <<coreVars, guardVars, orchVars, extVars>>

StoreCreateTask ==
    /\ \E id \in StoreTaskIds :
         LET t == StoreTeamTask(id, store_now)
             s == sqlite_create_task(sq, t)
             p == pg_create_task(pg, t)
         IN  /\ sq' = s.db
             /\ pg' = p.db
             /\ store_ret' = Called("create_task", s.ret, p.ret)
    /\ UNCHANGED store_now
    /\ UNCHANGED <<coreVars, guardVars, orchVars, extVars>>

StoreUpdateTask ==
    /\ \E id \in StoreTaskIds, u \in StoreTaskUpdates :
         LET s == sqlite_update_task(sq, id, u[1], u[2], u[3], store_now)
             p == pg_update_task(pg, id, u[1], u[2], u[3], store_now)
         IN  /\ sq' = s.db
             /\ pg' = p.db
             /\ store_ret' = Called("update_task", s.ret, p.ret)
    /\ UNCHANGED store_now
    /\ UNCHANGED <<coreVars, guardVars, orchVars, extVars>>

StoreGetTask ==
    /\ \E id \in StoreTaskIds :
         store_ret' = Called("get_task", sqlite_get_task(sq, id, store_now),
                             pg_get_task(pg, id))
    /\ UNCHANGED <<store_now, sq, pg>>
    /\ UNCHANGED <<coreVars, guardVars, orchVars, extVars>>

StoreNext ==
    \/ StoreAdvance \/ StoreCreateDelegation \/ StoreUpdateDelegation \/ StoreGetDelegation
    \/ StoreCreateTask \/ StoreUpdateTask \/ StoreGetTask

SpecStore == StoreInit /\ [][StoreNext]_vars

\* ------------------------------------------------------------------------
\* Orchestration tools and message routing (bizclaw-tools/src/orchestration.rs,
\* bizclaw-agent/src/orchestrator.rs): an agent hands a session off through
\* the handoff tool; messages of a session are sent through the orchestrator
\* ------------------------------------------------------------------------
\* what a DataStore call can return: Ok, or Err(BizClawError::Database)
StoreResults == {"Ok", "Err"}

\* ToolResult { output, success }
ToolResult(output, success) == [output |-> output, success |-> success]

\* HandoffTool::execute with a store attached: the Handoff is built and
\* create_handoff is called; its result `res` is assigned to _ and the tool
\* answers "Handoff complete" with success = true
HandoffToolStored(from, to_agent, session_id, res) ==
    /\ Len(handoffs) < MaxHandoffs
    /\ handoffs' = IF res = "Ok"
                   THEN insert_handoff(deactivate(handoffs, session_id),
                                       NewHandoff(Len(handoffs) + 1, from, to_agent, session_id))
                   ELSE handoffs
    /\ tool_ret' = [tool |-> "handoff", session_id |-> session_id, to_agent |-> to_agent,
                    store |-> <<res>>, ret |-> ToolResult("Handoff complete", TRUE)]
    /\ UNCHANGED <<backend, hpc, routed>>

\* HandoffTool::execute without a store: nothing is persisted
HandoffToolDetached(from, to_agent, session_id) ==
    /\ tool_ret' = [tool |-> "handoff", session_id |-> session_id, to_agent |-> to_agent,
                    store |-> <<>>, ret |-> ToolResult("Handoff requested", TRUE)]
    /\ UNCHANGED <<backend, handoffs, hpc, routed>>

\* DataStore::clear_handoff(session_id)
ClearHandoffCall(session_id) ==
    /\ handoffs' = deactivate(handoffs, session_id)
    /\ UNCHANGED <<backend, hpc, tool_ret, routed>>

\* Orchestrator::send for a message of the session: the default agent is
\* taken and send_to(default, message) runs the turn on it
OrchestratorSend(session_id) ==
    /\ routed' = [session_id |-> session_id, agent |-> DefaultAgent]
    /\ UNCHANGED <<backend, handoffs, hpc, tool_ret>>

ToolsInit ==
    /\ backend = "sqlite"
    /\ handoffs = <<>>
    /\ hpc = [c \in Callers |-> Idle]
    /\ tool_ret = Idle
    /\ routed = Idle
    /\ SchedIdle /\ TeamIdle /\ PairIdle /\ LoopIdle
    /\ GuardIdle /\ OrchIdle /\ StoreIdle /\ PoolIdle /\ DiskIdle /\ LateIdle

ToolsHandoffStored ==
    /\ \E from \in Agents, to \in AgentNames, s \in Sessions, res \in StoreResults :
           HandoffToolStored(from, to, s, res)
    /\ UNCHANGED <<schedVars, teamVars, pairVars, loopVars, guardVars, orchVars, storeVars,
                   poolVars, diskVars, lateVars>>

ToolsHandoffDetached ==
    /\ \E from \in Agents, to \in AgentNames, s \in Sessions :
           HandoffToolDetached(from, to, s)
    /\ UNCHANGED <<schedVars, teamVars, pairVars, loopVars, guardVars, orchVars, storeVars,
                   poolVars, diskVars, lateVars>>

ToolsClearHandoff ==
    /\ \E s \in Sessions : ClearHandoffCall(s)
    /\ UNCHANGED <<schedVars, teamVars, pairVars, loopVars, guardVars, orchVars, storeVars,
                   poolVars, diskVars, lateVars>>

ToolsSend ==
    /\ \E s \in Sessions : OrchestratorSend(s)
    /\ UNCHANGED <<schedVars, teamVars, pairVars, loopVars, guardVars, orchVars, storeVars,
                   poolVars, diskVars, lateVars>>

ToolsNext == ToolsHandoffStored \/ ToolsHandoffDetached \/ ToolsClearHandoff \/ ToolsSend

SpecTools == ToolsInit /\ [][ToolsNext]_vars

\* ------------------------------------------------------------------------
\* Orchestrator: the agent pool (add_agent, remove_agent, set_default)
\* ------------------------------------------------------------------------
MaxPoolMessages == 1

\* names the pool calls are made with
PoolNames == {"a", "b", "c"}

Roles == {"assistant", "coder"}

\* the NamedAgent add_agent inserts
NamedAgent(name, role) == [name |-> name, role |-> role, active |-> TRUE, message_count |-> 0]

\* HashMap::remove
Without(map, key) == [k \in DOMAIN map \ {key} |-> map[k]]

\* self.agents.keys().next().cloned(): some key of the map, in the map's
\* own order, or None when the map is empty
keys_next(map) == IF DOMAIN map = {} THEN {NoneStr} ELSE DOMAIN map

\* Orchestrator::add_agent
add_agent(name, role) ==
    LET is_first == DOMAIN agents = {}
    IN  /\ agents' = Put(agents, name, NamedAgent(name, role))
        /\ default_agent' = IF is_first THEN name ELSE default_agent
        /\ pool_ret' = [op |-> "add_agent", name |-> name]

\* remove_agent that leaves default_agent as it is
remove_agent_stale(name, next_key) ==
    /\ agents' = Without(agents, name)
    /\ next_key \in keys_next(agents')
    /\ UNCHANGED default_agent
    /\ pool_ret' = [op |-> "remove_agent", name |-> name, removed |-> name \in DOMAIN agents,
                    reassigned |-> default_agent = name]

\* Orchestrator::remove_agent; next_key is what keys().next() yields
remove_agent(name, next_key) ==
    /\ agents' = Without(agents, name)
    /\ next_key \in keys_next(agents')
    /\ default_agent' = IF default_agent = name THEN next_key ELSE default_agent
    /\ pool_ret' = [op |-> "remove_agent", name |-> name, removed |-> name \in DOMAIN agents,
                    reassigned |-> default_agent = name]

\* Orchestrator::set_default
set_default(name) ==
    /\ default_agent' = IF name \in DOMAIN agents THEN name ELSE default_agent
    /\ pool_ret' = [op |-> "set_default", name |-> name]
    /\ UNCHANGED agents

\* Orchestrator::inc_message_count
inc_message_count(name) ==
    /\ agents' = IF name \in DOMAIN agents
                 THEN [agents EXCEPT ![name].message_count = @ + 1]
                 ELSE agents
    /\ pool_ret' = [op |-> "inc_message_count", name |-> name]
    /\ UNCHANGED default_agent

PoolInit ==
    /\ agents = <<>>
    /\ default_agent = NoneStr
    /\ pool_ret = Idle
    /\ CoreIdle /\ GuardIdle /\ OrchIdle /\ StoreIdle /\ ToolIdle /\ DiskIdle /\ LateIdle

PoolAddAgent ==
    /\ \E name \in PoolNames, role \in Roles : add_agent(name, role)
    /\ UNCHANGED <<coreVars, guardVars, orchVars, storeVars, toolVars, diskVars, lateVars>>

PoolRemoveAgent ==
    /\ \E name \in PoolNames, next_key \in PoolNames \cup {NoneStr} : remove_agent(name, next_key)
    /\ UNCHANGED <<coreVars, guardVars, orchVars, storeVars, toolVars, diskVars, lateVars>>

PoolSetDefault ==
    /\ \E name \in PoolNames : set_default(name)
    /\ UNCHANGED <<coreVars, guardVars, orchVars, storeVars, toolVars, diskVars, lateVars>>

PoolIncMessageCount ==
    /\ \E name \in PoolNames :
           /\ name \in DOMAIN agents => agents[name].message_count < MaxPoolMessages
           /\ inc_message_count(name)
    /\ UNCHANGED <<coreVars, guardVars, orchVars, storeVars, toolVars, diskVars, lateVars>>

PoolNext == PoolAddAgent \/ PoolRemoveAgent \/ PoolSetDefault \/ PoolIncMessageCount

SpecPool == PoolInit /\ [][PoolNext]_vars

\* ------------------------------------------------------------------------
\* Scheduler with its task store: two tasks, every change saved to disk as
\* the engine saves it, and the process stopped and started again
\* ------------------------------------------------------------------------
MaxFleetTime == 4

\* SchedulerEngine::recompute_cron_times
recompute_cron_times(ts, clock) ==
    [i \in DOMAIN ts |->
        IF ts[i].task_type = "Cron" /\ (ts[i].next_run = None \/ ts[i].next_run < clock)
        THEN [ts[i] EXCEPT !.next_run = next_run_from_cron(ts[i].every_secs, clock)]
        ELSE ts[i]]

\* TaskStore::save followed by TaskStore::load: the list that was written
load(disk) == disk

\* SchedulerEngine::new: the stored tasks are loaded, cron times recomputed
engine_new(disk, clock) == recompute_cron_times(load(disk), clock)

\* two stored tasks whose actions can fail
Fleets ==
    { << [a EXCEPT !.action = "AgentPrompt", !.retry = p],
         [b EXCEPT !.action = "Webhook", !.retry = p] >> :
          a \in {TaskOnce("t1", 1, 0), TaskInterval("t1", 2, 0)},
          b \in {TaskInterval("t2", 1, 0), TaskCron("t2", 2, 0), TaskOnce("t2", 1, 0)},
          p \in {RetryPolicyDefault, RetryPolicyShort} }

FleetInit ==
    /\ now = 0
    /\ tasks \in Fleets
    /\ saved_tasks = tasks
    /\ triggered = <<>>
    /\ router = [Normal |-> 0, Urgent |-> 0]
    /\ HandoffIdle /\ TeamIdle /\ PairIdle /\ LoopIdle
    /\ GuardIdle /\ OrchIdle /\ StoreIdle /\ ToolIdle /\ PoolIdle /\ LateIdle

\* a pass of the loop; tick saves when it has fired a task
FleetTick ==
    /\ LoopIteration(MaxFleetTime)
    /\ saved_tasks' = IF triggered' # <<>> THEN tasks' ELSE saved_tasks
    /\ UNCHANGED <<handoffVars, teamVars, pairVars, loopVars, guardVars, orchVars, storeVars,
                   toolVars, poolVars, lateVars>>

\* the action at the head of triggered_tasks returns Ok; eng.save()
FleetSucceeds ==
    /\ triggered # <<>>
    /\ \E secs \in 0..MaxActionSecs : HandleResult("ok", secs)
    /\ saved_tasks' = tasks'
    /\ UNCHANGED <<handoffVars, teamVars, pairVars, loopVars, guardVars, orchVars, storeVars,
                   toolVars, poolVars, lateVars>>

\* the action at the head of triggered_tasks returns Err; eng.save()
FleetFails ==
    /\ triggered # <<>>
    /\ \E e \in Results(Head(triggered)) \ {"ok"} :
           \E secs \in 0..MaxActionSecs : HandleResult(e, secs)
    /\ saved_tasks' = tasks'
    /\ UNCHANGED <<handoffVars, teamVars, pairVars, loopVars, guardVars, orchVars, storeVars,
                   toolVars, poolVars, lateVars>>

\* SchedulerEngine::set_enabled, which saves
FleetSetEnabled ==
    /\ \E id \in {tasks[i].id : i \in DOMAIN tasks}, enabled \in BOOLEAN :
           tasks' = [tasks EXCEPT ![find(tasks, id)] = set_enabled(@, enabled)]
    /\ saved_tasks' = tasks'
    /\ UNCHANGED <<now, triggered, router>>
    /\ UNCHANGED <<handoffVars, teamVars, pairVars, loopVars, guardVars, orchVars, storeVars,
                   toolVars, poolVars, lateVars>>

\* the process stops while actions are pending and is started again: the
\* loop's triggered_tasks and the notification history are lost, the engine
\* is rebuilt from the store
FleetRestart ==
    /\ triggered # <<>>
    /\ tasks' = engine_new(saved_tasks, now)
    /\ triggered' = <<>>
    /\ router' = [Normal |-> 0, Urgent |-> 0]
    /\ UNCHANGED <<now, saved_tasks>>
    /\ UNCHANGED <<handoffVars, teamVars, pairVars, loopVars, guardVars, orchVars, storeVars,
                   toolVars, poolVars, lateVars>>

FleetNext == FleetTick \/ FleetSucceeds \/ FleetFails \/ FleetSetEnabled \/ FleetRestart

SpecFleet == FleetInit /\ [][FleetNext]_vars

\* ------------------------------------------------------------------------
\* Agent teams: AgentTeam::add_member, create_team / get_team on both backends
\* ------------------------------------------------------------------------
MaxMembers == 3

TeamRoles == {"Lead", "Member"}

\* AgentTeam::add_member: push, whatever the role and the members so far
add_member(members, agent_name, role) ==
    Append(members, [agent_name |-> agent_name, role |-> role])

\* AgentTeam::lead: the first member with role Lead
lead(members) ==
    IF \E i \in DOMAIN members : members[i].role = "Lead"
    THEN members[CHOOSE i \in DOMAIN members :
                     /\ members[i].role = "Lead"
                     /\ \A j \in 1..(i - 1) : members[j].role # "Lead"].agent_name
    ELSE NoneStr

\* #[serde(rename_all = "lowercase")] on TeamRole
role_to_json(role) == IF role = "Lead" THEN "lead" ELSE "member"

\* serde_json::to_string / to_value of Vec<TeamMember>
members_to_json(members) ==
    [i \in DOMAIN members |->
        [agent_name |-> members[i].agent_name, role |-> role_to_json(members[i].role)]]

\* serde_json::from_str / from_value(..).unwrap_or_default(): an unknown role
\* fails the whole parse and leaves no member
members_from_json(json) ==
    IF \A i \in DOMAIN json : json[i].role \in {"lead", "member"}
    THEN [i \in DOMAIN json |->
             [agent_name |-> json[i].agent_name,
              role |-> IF json[i].role = "lead" THEN "Lead" ELSE "Member"]]
    ELSE <<>>

RosterInit ==
    /\ team = <<>>
    /\ team_rows = Idle
    /\ team_loaded = Idle
    /\ CoreIdle /\ GuardIdle /\ OrchIdle /\ StoreIdle
    /\ ToolIdle /\ PoolIdle /\ DiskIdle /\ ExceptRosterIdle

RosterAddMember ==
    /\ Len(team) < MaxMembers
    /\ \E a \in Agents, role \in TeamRoles : team' = add_member(team, a, role)
    /\ UNCHANGED <<team_rows, team_loaded>>
    /\ UNCHANGED <<coreVars, guardVars, orchVars, storeVars, toolVars, poolVars, diskVars, exceptRosterVars>>

\* create_team on both backends; the team id is the primary key, so a second
\* insert of the same team fails and leaves the row
RosterCreateTeam ==
    /\ team_rows = Idle
    /\ team_rows' = [pc |-> "done", sqlite |-> members_to_json(team),
                     postgres |-> members_to_json(team)]
    /\ UNCHANGED <<team, team_loaded>>
    /\ UNCHANGED <<coreVars, guardVars, orchVars, storeVars, toolVars, poolVars, diskVars, exceptRosterVars>>

RosterGetTeam ==
    /\ team_rows # Idle
    /\ team_loaded' = [pc |-> "done", sqlite |-> members_from_json(team_rows.sqlite),
                       postgres |-> members_from_json(team_rows.postgres)]
    /\ UNCHANGED <<team, team_rows>>
    /\ UNCHANGED <<coreVars, guardVars, orchVars, storeVars, toolVars, poolVars, diskVars, exceptRosterVars>>

RosterNext == RosterAddMember \/ RosterCreateTeam \/ RosterGetTeam

SpecRoster == RosterInit /\ [][RosterNext]_vars

\* ------------------------------------------------------------------------
\* Handoffs: create_handoff as a call that can fail
\* ------------------------------------------------------------------------
\* DataStore::create_handoff on either backend, one call running alone: the
\* UPDATE is executed (and committed) first; the INSERT fails when a row with
\* the primary key h.id exists, and the error is returned
create_handoff(rows, h) ==
    LET updated == deactivate(rows, h.session_id)
    IN  IF \E i \in DOMAIN updated : updated[i].id = h.id
        THEN [rows |-> updated, ret |-> "Err"]
        ELSE [rows |-> insert_handoff(updated, h), ret |-> "Ok"]

AtomInit ==
    /\ backend \in {"sqlite", "postgres"}
    /\ handoffs = <<>>
    /\ hpc = [c \in Callers |-> Idle]
    /\ handoff_ret = Idle
    /\ SchedIdle /\ TeamIdle /\ PairIdle /\ LoopIdle
    /\ GuardIdle /\ OrchIdle /\ StoreIdle
    /\ ToolIdle /\ PoolIdle /\ DiskIdle /\ ExceptAtomIdle

\* the caller passes a Handoff of its own: a new one, or one it has passed before
AtomCreateHandoff ==
    /\ \E id \in 1..MaxHandoffs, from \in Agents, to \in Agents, s \in Sessions :
         LET r == create_handoff(handoffs, NewHandoff(id, from, to, s))
         IN  /\ handoffs' = r.rows
             /\ handoff_ret' = [pc |-> "done", ret |-> r.ret, session_id |-> s,
                                before |-> active_handoff(handoffs, s)]
    /\ UNCHANGED <<backend, hpc>>
    /\ UNCHANGED <<schedVars, teamVars, pairVars, loopVars, guardVars, orchVars, storeVars>>
    /\ UNCHANGED <<toolVars, poolVars, diskVars, exceptAtomVars>>

AtomClearHandoff ==
    /\ \E s \in Sessions : handoffs' = deactivate(handoffs, s)
    /\ handoff_ret' = Idle
    /\ UNCHANGED <<backend, hpc>>
    /\ UNCHANGED <<schedVars, teamVars, pairVars, loopVars, guardVars, orchVars, storeVars>>
    /\ UNCHANGED <<toolVars, poolVars, diskVars, exceptAtomVars>>

AtomNext == AtomCreateHandoff \/ AtomClearHandoff

SpecAtom == AtomInit /\ [][AtomNext]_vars

\* ------------------------------------------------------------------------
\* Team messages: send / read through the team_message tool (one team)
\* ------------------------------------------------------------------------
MaxTeamMessages == 2

Members == {"lead", "coder", "tester"}

\* TeamMessage::direct / TeamMessage::broadcast: to_agent Some(to) / None, read = false
TeamMessage(id, from, to) == [id |-> id, from_agent |-> from, to_agent |-> to, read |-> FALSE]

\* INSERT INTO team_messages (...)
send_team_message(rows, msg) == Append(rows, msg)

\* SELECT ... WHERE read = 0 AND (to_agent = ?2 OR to_agent IS NULL) AND from_agent != ?2
unread_messages(rows, agent_name) ==
    SelectSeq(rows, LAMBDA m : /\ ~m.read
                               /\ (m.to_agent = agent_name \/ m.to_agent = NoneStr)
                               /\ m.from_agent # agent_name)

\* UPDATE team_messages SET read = 1 WHERE id = ?1, for every id
mark_read(rows, message_ids) ==
    [i \in DOMAIN rows |->
        IF rows[i].id \in message_ids THEN [rows[i] EXCEPT !.read = TRUE] ELSE rows[i]]

\* TeamMessageTool::execute, action "send" by agent_name
TeamMessageSend(agent_name, to) ==
    /\ team_messages' = send_team_message(team_messages,
                            TeamMessage(Len(team_messages) + 1, agent_name, to))
    /\ UNCHANGED msg_seen

\* TeamMessageTool::execute, action "read" by agent_name: the unread messages
\* are listed in the output and marked read
TeamMessageRead(agent_name) ==
    LET messages == unread_messages(team_messages, agent_name)
        ids == {messages[i].id : i \in DOMAIN messages}
    IN  /\ team_messages' = IF messages = <<>> THEN team_messages
                            ELSE mark_read(team_messages, ids)
        /\ msg_seen' = msg_seen \cup {<<agent_name, id>> : id \in ids}

InboxInit ==
    /\ team_messages = <<>>
    /\ msg_seen = {}
    /\ CoreIdle /\ GuardIdle /\ OrchIdle /\ StoreIdle
    /\ ToolIdle /\ PoolIdle /\ DiskIdle /\ ExceptInboxIdle

InboxSend ==
    /\ Len(team_messages) < MaxTeamMessages
    /\ \E a \in Members : \E to \in (Members \cup {NoneStr}) \ {a} : TeamMessageSend(a, to)
    /\ UNCHANGED <<coreVars, guardVars, orchVars, storeVars, toolVars, poolVars, diskVars, exceptInboxVars>>

InboxRead ==
    /\ \E a \in Members : TeamMessageRead(a)
    /\ UNCHANGED <<coreVars, guardVars, orchVars, storeVars, toolVars, poolVars, diskVars, exceptInboxVars>>

InboxNext == InboxSend \/ InboxRead

SpecInbox == InboxInit /\ [][InboxNext]_vars

\* ------------------------------------------------------------------------
\* DefaultSecurityPolicy::check_command next to Allowlist::is_command_allowed,
\* both built from the same AutonomyConfig.allowed_commands
\* ------------------------------------------------------------------------
dangerous_patterns ==
    { <<";">>, <<"&", "&">>, <<"|", "|">>, <<"|">>, <<"$", "(">>, <<"backtick">>, <<"\n">> }

check_command(allowed, cmd) ==
    IF \E pattern \in dangerous_patterns : contains(cmd, pattern)
    THEN FALSE
    ELSE first_token(cmd) \in allowed

PolicyInit ==
    /\ allowed_commands \in SUBSET CommandNames
    /\ command \in Commands
    /\ cmd_ret = Idle
    /\ check_ret = Idle
    /\ url = <<>>
    /\ url_ret = Idle
    /\ CoreIdle /\ OrchIdle /\ StoreIdle
    /\ ToolIdle /\ PoolIdle /\ DiskIdle /\ ExceptPolicyIdle

PolicyCheckCommand ==
    /\ check_ret = Idle
    /\ check_ret' = [pc |-> "done", allowed |-> check_command(allowed_commands, command)]
    /\ UNCHANGED guardVars
    /\ UNCHANGED <<coreVars, orchVars, storeVars, toolVars, poolVars, diskVars, exceptPolicyVars>>

PolicyIsCommandAllowed ==
    /\ cmd_ret = Idle
    /\ cmd_ret' = [pc |-> "done", allowed |-> is_command_allowed(allowed_commands, command)]
    /\ UNCHANGED <<allowed_commands, command, url, url_ret, check_ret>>
    /\ UNCHANGED <<coreVars, orchVars, storeVars, toolVars, poolVars, diskVars, exceptPolicyVars>>

PolicyNext == PolicyCheckCommand \/ PolicyIsCommandAllowed

SpecPolicy == PolicyInit /\ [][PolicyNext]_vars

\* ------------------------------------------------------------------------
\* MCP stdio transport: StdioTransport::request against a server that answers
\* every request once, in order, after any delay.  The client holds the
\* transport by &mut, so one request runs at a time.
\* ------------------------------------------------------------------------
MaxRequests == 6

\* StdioTransport::request up to the read: the request line is written to
\* the child's stdin and flushed
RequestWrite ==
    /\ req = Idle
    /\ next_id <= MaxRequests
    /\ server_in' = Append(server_in, next_id)
    /\ req' = [pc |-> "read_line", id |-> next_id]
    /\ next_id' = next_id + 1
    /\ UNCHANGED <<server_out, resp>>
    /\ UNCHANGED <<coreVars, guardVars, orchVars, storeVars, toolVars, poolVars, diskVars, exceptMcpVars>>

\* the server answers its oldest request: a line with that request's id
ServerResponds ==
    /\ server_in # <<>>
    /\ server_out' = Append(server_out, Head(server_in))
    /\ server_in' = Tail(server_in)
    /\ UNCHANGED <<next_id, req, resp>>
    /\ UNCHANGED <<coreVars, guardVars, orchVars, storeVars, toolVars, poolVars, diskVars, exceptMcpVars>>

\* Ok(Ok(_)): read_line returns the next line of stdout, which is parsed and
\* returned whatever its id
RequestReadLine ==
    /\ req # Idle
    /\ server_out # <<>>
    /\ resp' = [pc |-> "done", id |-> req.id, ret |-> Head(server_out)]
    /\ server_out' = Tail(server_out)
    /\ req' = Idle
    /\ UNCHANGED <<next_id, server_in>>
    /\ UNCHANGED <<coreVars, guardVars, orchVars, storeVars, toolVars, poolVars, diskVars, exceptMcpVars>>

\* Err(_): no line within 30 s; the request is left with the server
RequestTimeout ==
    /\ req # Idle
    /\ server_out = <<>>
    /\ resp' = [pc |-> "done", id |-> req.id, ret |-> None]
    /\ req' = Idle
    /\ UNCHANGED <<next_id, server_in, server_out>>
    /\ UNCHANGED <<coreVars, guardVars, orchVars, storeVars, toolVars, poolVars, diskVars, exceptMcpVars>>

McpInit ==
    /\ next_id = 1
    /\ server_in = <<>>
    /\ server_out = <<>>
    /\ req = Idle
    /\ resp = Idle
    /\ CoreIdle /\ GuardIdle /\ OrchIdle /\ StoreIdle
    /\ ToolIdle /\ PoolIdle /\ DiskIdle /\ ExceptMcpIdle

McpNext == RequestWrite \/ ServerResponds \/ RequestReadLine \/ RequestTimeout

SpecMcp == McpInit /\ [][McpNext]_vars

\* ------------------------------------------------------------------------
\* Workflows: WorkflowEngine::execute over sequential steps, the agent
\* callback succeeding or failing at each attempt
\* ------------------------------------------------------------------------
MaxSteps == 2

MaxStepRetries == 1

\* WorkflowStep: name, optional, max_retries (step type Sequential)
WorkflowSteps(n) ==
    { s \in [1..n -> [name : 1..n, optional : BOOLEAN, max_retries : 0..MaxStepRetries]] :
          \A i \in 1..n : s[i].name = i }

Workflows ==
    { [steps |-> s, stop_on_failure |-> b] :
          s \in UNION { WorkflowSteps(n) : n \in 1..MaxSteps }, b \in BOOLEAN }

\* WorkflowState::new, then status = Running
WorkflowState == [status |-> "Running", current_step_index |-> 0, step_results |-> <<>>,
                  error |-> NoneStr]

\* WorkflowState::record_step
record_step(state, result) ==
    [state EXCEPT !.step_results = Append(@, result),
                  !.current_step_index = @ + 1]

\* WorkflowState::complete
complete(state) == [state EXCEPT !.status = "Completed"]

\* WorkflowState::fail
fail(state, e) == [state EXCEPT !.status = "Failed", !.error = e]

\* WorkflowEngine::execute_sequential: agent_fn is called up to
\* max_retries + 1 times; attempts[k] says whether call k returns Ok
execute_sequential(step, attempts) ==
    IF \E k \in 1..(step.max_retries + 1) : attempts[k]
    THEN [ok |-> TRUE,
          result |-> [step_name |-> step.name, status |-> "Success",
                      retries |-> (CHOOSE k \in 1..(step.max_retries + 1) :
                                      /\ attempts[k]
                                      /\ \A j \in 1..(k - 1) : ~attempts[j]) - 1]]
    ELSE [ok |-> FALSE, error |-> "failed after retries"]

\* the result recorded for an optional step that failed
skip_result(step) == [step_name |-> step.name, status |-> "Skipped", retries |-> 0]

FlowInit ==
    /\ wf \in Workflows
    /\ wf_state = Idle
    /\ wf_idx = 0
    /\ wf_errors = {}
    /\ CoreIdle /\ GuardIdle /\ OrchIdle /\ StoreIdle
    /\ ToolIdle /\ PoolIdle /\ DiskIdle /\ ExceptFlowIdle

\* execute, up to the loop
ExecuteBegin ==
    /\ wf_state = Idle
    /\ wf_state' = WorkflowState
    /\ wf_idx' = 1
    /\ UNCHANGED <<wf, wf_errors>>
    /\ UNCHANGED <<coreVars, guardVars, orchVars, storeVars, toolVars, poolVars, diskVars, exceptFlowVars>>

\* execute, one pass of the loop over workflow.steps
ExecuteStep ==
    /\ wf_state # Idle
    /\ wf_state.status = "Running"
    /\ wf_idx <= Len(wf.steps)
    /\ LET step == wf.steps[wf_idx]
       IN  \E attempts \in [1..(step.max_retries + 1) -> BOOLEAN] :
             LET r == execute_sequential(step, attempts)
             IN  IF r.ok
                 THEN /\ wf_state' = record_step(wf_state, r.result)
                      /\ wf_idx' = wf_idx + 1
                      /\ UNCHANGED wf_errors
                 ELSE /\ wf_errors' = wf_errors \cup {step.name}
                      /\ IF step.optional
                         THEN /\ wf_state' = record_step(wf_state, skip_result(step))
                              /\ wf_idx' = wf_idx + 1
                         ELSE IF wf.stop_on_failure
                         THEN /\ wf_state' = fail(wf_state, r.error)
                              /\ UNCHANGED wf_idx
                         ELSE /\ UNCHANGED wf_state
                              /\ wf_idx' = wf_idx + 1
    /\ UNCHANGED wf
    /\ UNCHANGED <<coreVars, guardVars, orchVars, storeVars, toolVars, poolVars, diskVars, exceptFlowVars>>

\* execute, after the loop: state.complete() and return
ExecuteComplete ==
    /\ wf_state # Idle
    /\ wf_state.status = "Running"
    /\ wf_idx = Len(wf.steps) + 1
    /\ wf_state' = complete(wf_state)
    /\ UNCHANGED <<wf, wf_idx, wf_errors>>
    /\ UNCHANGED <<coreVars, guardVars, orchVars, storeVars, toolVars, poolVars, diskVars, exceptFlowVars>>

FlowNext == ExecuteBegin \/ ExecuteStep \/ ExecuteComplete

SpecFlow == FlowInit /\ [][FlowNext]_vars

\* ------------------------------------------------------------------------
\* Scheduler claims
\* ------------------------------------------------------------------------

\* C1: immediately after schedule_retry(F) the task is either retry_pending
\* with retry_at >= now and fail_count <= retry.max_retries, or failed(F)
\* with fail_count = retry.max_retries + 1
C1_AfterScheduleRetry ==
    [][\A i \in DOMAIN tasks :
          tasks'[i].fail_count = tasks[i].fail_count + 1 =>
              LET u == tasks'[i]
              IN  \/ /\ u.status.kind = "RetryPending"
                     /\ u.status.retry_at >= now'
                     /\ u.fail_count <= u.retry.max_retries
                  \/ /\ u.status = Failed(u.last_error)
                     /\ u.fail_count = u.retry.max_retries + 1]_vars

\* C5: with the default policy and an action failing on every attempt from
\* time t = LadderStart on: after failure 1 the task is retry_pending with
\* retry_at = t+30, after failure 2 with t+90, after failure 3 with t+210,
\* after failure 4 it is failed and an urgent notification is recorded; no
\* attempt starts before its retry_at, and the tick at retry_at starts the
\* next attempt
C5_RetryLadder ==
    [][\A i \in DOMAIN tasks :
          LET t == tasks[i]
              u == tasks'[i]
          IN  /\ (triggered' = <<>> /\ u.fail_count = 1) =>
                     u.status = RetryPending(LadderStart + 30, 1)
              /\ (triggered' = <<>> /\ u.fail_count = 2) =>
                     u.status = RetryPending(LadderStart + 90, 2)
              /\ (triggered' = <<>> /\ u.fail_count = 3) =>
                     u.status = RetryPending(LadderStart + 210, 3)
              /\ (u.fail_count = 4 /\ t.fail_count = 3) =>
                     /\ u.status.kind = "Failed"
                     /\ router'.Urgent = router.Urgent + 1
                     /\ now' = LadderStart + 210
              /\ (u.run_count = t.run_count + 1 /\ t.status.kind = "RetryPending") =>
                     now' >= t.status.retry_at
              /\ (t.status.kind = "RetryPending" /\ triggered = <<>>
                      /\ now' >= t.status.retry_at) =>
                     u.run_count = t.run_count + 1]_vars

\* C6: next_run agrees with status: it is retry_at while the status is
\* retry_pending, and otherwise the next activation of the normal schedule
\* (once: `at` until it has run; interval: every_secs after the last run or
\* the creation; cron: the first activation after the last run or creation)
C6_NextRunAgreesWithStatus ==
    \A i \in DOMAIN tasks :
        LET t == tasks[i]
            from == IF t.last_run # None THEN t.last_run ELSE t.created_at
        IN  IF t.status.kind = "RetryPending"
            THEN t.next_run = t.status.retry_at
            ELSE t.next_run =
                     CASE t.task_type = "Once" ->
                            IF t.last_run = None THEN t.every_secs ELSE None
                       [] t.task_type = "Interval" -> from + t.every_secs
                       [] t.task_type = "Cron" -> next_run_from_cron(t.every_secs, from)

\* ------------------------------------------------------------------------
\* Store claims
\* ------------------------------------------------------------------------

\* C2: for every session at most one handoff row is active, under any
\* interleaving of create_handoff and clear_handoff, on either backend
C2_OneActiveHandoffPerSession ==
    \A s \in Sessions :
        Cardinality({i \in DOMAIN handoffs :
                        handoffs[i].session_id = s /\ handoffs[i].active}) <= 1

\* C3: a claim is a compare-and-set: of the agents that claim the same
\* pending task only one is told that the claim succeeded, and assigned_to
\* names that agent while the task is in progress
C3_ClaimIsCompareAndSet ==
    \A id \in TaskIdsTeam :
        /\ Cardinality({a \in Agents : <<a, id>> \in claimed}) <= 1
        /\ \A a \in Agents :
               (<<a, id>> \in claimed /\ team_tasks[id].status = "in_progress") =>
                   team_tasks[id].assigned_to = a

\* C4: a generated pairing code is redeemed at most once: no two
\* validate_pairing calls return the tenant for the same code
C4_PairingCodeRedeemedOnce ==
    \A i \in DOMAIN returned : \A j \in DOMAIN returned :
        i # j => returned[i][2] # returned[j][2]

\* ------------------------------------------------------------------------
\* Loop detector claims
\* ------------------------------------------------------------------------

\* no clear() so far: the detector has only seen the check calls of the log
Fresh(l) == \A i \in DOMAIN l : l[i].op = "check"

\* the calls made after the last clear()
SinceClear(l) ==
    LET clears == {i \in DOMAIN l : l[i].op = "clear"}
        last == IF clears = {} THEN 0 ELSE CHOOSE i \in clears : \A j \in clears : j <= i
    IN  SubSeq(l, last + 1, Len(l))

RECURSIVE Replay(_, _)
\* a detector d after the check calls of l, and the values they return
Replay(d, l) ==
    IF l = <<>> THEN [det |-> d, rets |-> <<>>]
    ELSE LET r == check_entry(d, Head(l).entry)
             rest == Replay(r.det, Tail(l))
         IN  [det |-> rest.det, rets |-> <<r.ret>> \o rest.rets]

\* C7: on a fresh detector with max_repetitions = m <= max_history, repeating
\* one call returns false for the first m calls and true on call m+1, after
\* which loops_detected = 1
C7_SameCallLoop ==
    (/\ Fresh(log)
     /\ det.max_repetitions <= det.max_history
     /\ \A i \in DOMAIN log : log[i].entry = log[1].entry) =>
        /\ \A i \in DOMAIN log :
               /\ i <= det.max_repetitions => ~log[i].ret
               /\ i = det.max_repetitions + 1 => log[i].ret
        /\ Len(log) = det.max_repetitions + 1 => det.loops_detected = 1

\* C8 (as stated): the k-th check of one fingerprint returns true whenever
\* k >= max_repetitions
C8_TrueOnKthCall ==
    \A i \in DOMAIN log :
        (/\ log[i].op = "check"
         /\ Fresh(log)
         /\ Cardinality({j \in 1..i : log[j].entry = log[i].entry})
                >= det.max_repetitions) =>
            log[i].ret

\* C8 (amended): once the history window holds the fingerprint k times with
\* k >= max_repetitions, the next check of that fingerprint, the (k+1)-th,
\* returns true
C8_TrueAfterKCalls ==
    [][(/\ Len(log') = Len(log) + 1
        /\ log'[Len(log')].op = "check"
        /\ count_in(det.history, log'[Len(log')].entry) >= det.max_repetitions) =>
           log'[Len(log')].ret]_vars

\* a repeated call has been blocked: it was already max_repetitions (>= 1)
\* times in the window
C8_Witness ==
    /\ Len(log) >= 2
    /\ det.max_repetitions >= 1
    /\ log[Len(log)].op = "check"
    /\ log[Len(log)].ret
    /\ count_in(det.history, log[Len(log)].entry) > det.max_repetitions

\* C9: on a fresh detector with the default configuration, the calls
\* A,B,A,B,A,B of two distinct fingerprints return false five times, then true
C9_AlternatingLoop ==
    (/\ Fresh(log)
     /\ det.max_history = 20 /\ det.max_repetitions = 3
     /\ Len(log) >= 2
     /\ Len(log) <= 6
     /\ log[1].entry # log[2].entry
     /\ \A i \in 3..Len(log) : log[i].entry = log[i - 2].entry) =>
        \A i \in DOMAIN log : log[i].ret = (i = 6)

C9_Witness ==
    /\ Fresh(log)
    /\ det.max_history = 20 /\ det.max_repetitions = 3
    /\ Len(log) = 6
    /\ log[1].entry # log[2].entry
    /\ \A i \in 3..6 : log[i].entry = log[i - 2].entry
    /\ log[6].ret

\* C10 (as stated): after clear() the check calls return what they return on
\* a newly constructed detector with the same configuration, and stats()
\* reports the same values
C10_ClearIsFresh ==
    ~Fresh(log) =>
        LET fresh == Replay(with_config(det.max_history, det.max_repetitions),
                            SinceClear(log))
        IN  /\ [i \in DOMAIN SinceClear(log) |-> SinceClear(log)[i].ret] = fresh.rets
            /\ stats(det) = stats(fresh.det)

\* C10 (amended): after clear() the check calls return what they return on a
\* newly constructed detector, and stats() reports the same history_size;
\* loops_detected and tokens_saved are not reset, they go on counting from
\* the values they had before clear()
C10_ClearResetsHistory ==
    ~Fresh(log) =>
        LET tail == SinceClear(log)
            fresh == Replay(with_config(det.max_history, det.max_repetitions), tail)
            before == Cardinality({i \in 1..(Len(log) - Len(tail)) : log[i].ret})
        IN  /\ [i \in DOMAIN tail |-> tail[i].ret] = fresh.rets
            /\ det.history = fresh.det.history
            /\ stats(det).history_size = stats(fresh.det).history_size
            /\ stats(det).loops_detected = before + stats(fresh.det).loops_detected
            /\ stats(det).tokens_saved = 500 * before + stats(fresh.det).tokens_saved

\* clear() was called on a detector that had signalled a loop, and calls
\* were checked afterwards
C10_Witness ==
    /\ ~Fresh(log)
    /\ Len(SinceClear(log)) >= 2
    /\ det.loops_detected >= 1
    /\ \E i \in 1..(Len(log) - Len(SinceClear(log))) : log[i].ret

\* ------------------------------------------------------------------------
\* Safety envelope claims
\* ------------------------------------------------------------------------
\* the metacharacters the command allowlist is specified to reject
ForbiddenMetacharacters == {";", "|", "&", "backtick", "(", ")", "{", "}", ">", "<", "$", "\n"}

\* C11: is_command_allowed returns false for every command that contains a
\* forbidden metacharacter (one of ; | & backtick ( ) { } > < $ or a newline),
\* whatever the allowlist and wherever the character occurs
C11_MetacharactersRejected ==
    (cmd_ret.pc = "done" /\ \E i \in DOMAIN command : command[i] \in ForbiddenMetacharacters)
        => ~cmd_ret.allowed

\* the scheme of the URL is neither http nor https
OtherScheme(u) == to_lowercase(u.scheme) \notin {SchemeHttp, SchemeHttps}

\* the host is one the SSRF guard is specified to deny
DeniedHost(h) ==
    IF h.kind = "ipv4"
    THEN LET o == h.octets
         IN  \/ o = <<127, 0, 0, 1>>
             \/ o = <<0, 0, 0, 0>>
             \/ o[1] = 169 /\ o[2] = 254
             \/ o[1] = 10
             \/ o[1] = 192 /\ o[2] = 168
             \/ o[1] = 172 /\ o[2] \in 16..31
    ELSE \/ h.text = <<"l", "o", "c", "a", "l", "h", "o", "s", "t">>
         \/ h.text = <<"[", ":", ":", "1", "]">>
         \/ starts_with(h.text, <<"m", "e", "t", "a", "d", "a", "t", "a", ".">>)

\* C12: is_url_blocked returns a reason for every URL whose scheme is not
\* http(s) or whose host is localhost, a loopback literal (127.0.0.1,
\* 0.0.0.0, [::1]), link-local, a cloud metadata host or an RFC1918 address,
\* with or without a port
C12_PrivateUrlsBlocked ==
    (url_ret.pc = "done" /\ (OtherScheme(url) \/ DeniedHost(url.host)))
        => url_ret.blocked # NoneStr

\* C13: is_url_blocked allows every http(s) URL whose host is outside the
\* denylist, in particular every address beginning 172.15. or 172.32.
C13_PublicUrlsAllowed ==
    (url_ret.pc = "done" /\ ~OtherScheme(url) /\ ~DeniedHost(url.host))
        => url_ret.blocked = NoneStr

\* ------------------------------------------------------------------------
\* Orchestrator claims
\* ------------------------------------------------------------------------
\* C14: the orchestrator's outer lock is never held across an agent turn:
\* no handler is inside a turn started through send_to, send, delegate or
\* broadcast while it holds the lock of the orchestrator
C14_OuterLockNotHeldAcrossTurn ==
    \A h \in OrchHandlers : hreq[h].pc = "turn" => orch_lock # h

\* the link is about the pair of agents, in one direction or the other
Governs(link, from, to) == {link.source_agent, link.target_agent} = {from, to}

\* no link of the store forbids the delegation from -> to
Permitted(from, to) ==
    \A l \in links :
        Governs(l, from, to) =>
            /\ allows(l, from, to)
            /\ active_delegation_count(delegations, to) < l.max_concurrent

\* a delegate call of handler h is accepted in this step
Accepted(h) ==
    /\ hreq[h].pc = "locked"
    /\ hreq'[h].pc = "await_inner"
    /\ hreq'[h].op = "delegate"

\* C15: with a store attached and a link governing the pair, delegate is
\* rejected, and no turn runs on the target, when the link forbids the
\* direction from -> to or the target already has max_concurrent active
\* delegations
C15_DelegateRespectsLink ==
    [][\A h \in OrchHandlers : Accepted(h) => Permitted(hreq'[h].from, hreq'[h].to)]_vars

\* C16: every accepted delegate call creates a delegations row with status
\* pending, and a sync delegation that returns leaves its row completed
\* (with the result) or failed (with the error)
C16_DelegationRowRecorded ==
    [][\A h \in OrchHandlers :
         /\ Accepted(h) =>
              \E id \in DOMAIN delegations' \ DOMAIN delegations :
                  /\ delegations'[id].status = "pending"
                  /\ delegations'[id].from_agent = hreq'[h].from
                  /\ delegations'[id].to_agent = hreq'[h].to
         /\ (hreq[h].pc = "turn" /\ hreq'[h].pc = "returned" /\ hreq[h].op = "delegate") =>
              \E id \in DOMAIN delegations' :
                  /\ delegations'[id].from_agent = hreq[h].from
                  /\ delegations'[id].to_agent = hreq[h].to
                  /\ delegations'[id].status =
                         (IF hreq'[h].result = "ok" THEN "completed" ELSE "failed")]_vars

\* ------------------------------------------------------------------------
\* DataStore claims
\* ------------------------------------------------------------------------
\* pending < running < completed | failed | cancelled
StatusRank(s) == CASE s = "pending" -> 0 [] s = "running" -> 1 [] OTHER -> 2

TerminalStatuses == {"completed", "failed", "cancelled"}

\* C17: under any sequence of update_delegation calls, on either backend,
\* the status of a delegation only moves forward in the order
\* pending < running < completed|failed|cancelled
C17_StatusMovesForward ==
    [][/\ \A id \in DOMAIN sq.delegations :
             StatusRank(sq'.delegations[id].status) >= StatusRank(sq.delegations[id].status)
       /\ \A id \in DOMAIN pg.delegations :
             StatusRank(pg'.delegations[id].status) >= StatusRank(pg.delegations[id].status)]_vars

\* C18: for every delegation in every reachable state, on either backend,
\* completed_at is set if and only if the status is terminal
C18_CompletedAtIffTerminal ==
    /\ \A id \in DOMAIN sq.delegations :
           (sq.delegations[id].completed_at # SqlNull)
               <=> (sq.delegations[id].status \in TerminalStatuses)
    /\ \A id \in DOMAIN pg.delegations :
           (pg.delegations[id].completed_at # None)
               <=> (pg.delegations[id].status \in TerminalStatuses)

\* the ids of the completed tasks of the board
CompletedTasks == {id \in TaskIdsTeam : team_tasks[id].status = "completed"}

\* C19: a claim of a team task succeeds only if the task is claimable at
\* the moment of the update (pending, unassigned, every blocker completed);
\* any other claim is rejected and leaves the task unchanged
C19_ClaimOnlyIfClaimable ==
    [][\A a \in Agents, id \in TaskIdsTeam :
          (<<a, id>> \in claimed' /\ <<a, id>> \notin claimed)
              => is_claimable(team_tasks[id], CompletedTasks)]_vars

\* C20: SQLite and Postgres have identical semantics: each DataStore call
\* returns the same result, and the same success or error, on both
C20_BackendsAgree ==
    store_ret.pc = "done" => store_ret.sqlite = store_ret.postgres

\* ------------------------------------------------------------------------
\* DataStore round trips
\* ------------------------------------------------------------------------
\* C21: create, get, update, get: the second get returns the row with the
\* updated fields changed and every other field as the first get returned
\* it; an update never changes id or created_at, an update of a delegation
\* keeps its from_agent, to_agent and mode, and completing a team task keeps
\* its assigned_to
C21_UpdateKeepsOtherFields ==
    [][/\ \A id \in DOMAIN sq.team_tasks :
             LET before == sqlite_get_task(sq, id, store_now)[1]
                 after == sqlite_get_task(sq', id, store_now)[1]
             IN  /\ after.id = before.id
                 /\ after.created_at = before.created_at
                 /\ (after.status = "Completed" /\ before.status # "Completed")
                        => after.assigned_to = before.assigned_to
       /\ \A id \in DOMAIN pg.team_tasks :
             LET before == pg_get_task(pg, id)[1]
                 after == pg_get_task(pg', id)[1]
             IN  /\ after.id = before.id
                 /\ after.created_at = before.created_at
                 /\ (after.status = "Completed" /\ before.status # "Completed")
                        => after.assigned_to = before.assigned_to
       /\ \A id \in DOMAIN sq.delegations :
             LET before == sqlite_get_delegation(sq, id, store_now)[1]
                 after == sqlite_get_delegation(sq', id, store_now)[1]
             IN  /\ after.id = before.id
                 /\ after.from_agent = before.from_agent
                 /\ after.to_agent = before.to_agent
                 /\ after.mode = before.mode
                 /\ after.created_at = before.created_at
       /\ \A id \in DOMAIN pg.delegations :
             LET before == pg_get_delegation(pg, id)[1]
                 after == pg_get_delegation(pg', id)[1]
             IN  /\ after.id = before.id
                 /\ after.from_agent = before.from_agent
                 /\ after.to_agent = before.to_agent
                 /\ after.mode = before.mode
                 /\ after.created_at = before.created_at]_vars

\* ------------------------------------------------------------------------
\* Tool claims
\* ------------------------------------------------------------------------
\* C22: a tool never reports success when a DataStore operation it made has
\* failed: it propagates the error or returns a failure the user sees
C22_StoreErrorsNotSwallowed ==
    (tool_ret # Idle /\ \E i \in DOMAIN tool_ret.store : tool_ret.store[i] = "Err")
        => ~tool_ret.ret.success

\* C29: while a session has an active handoff, every message sent on the
\* session goes to the agent the handoff names (to_agent)
C29_RoutedToHandoffTarget ==
    [][\A s \in Sessions :
          (routed' # routed /\ routed'.session_id = s /\ active_handoff(handoffs, s) # <<>>)
              => routed'.agent = active_handoff(handoffs, s)[1].to_agent]_vars

\* ------------------------------------------------------------------------
\* Agent pool claims
\* ------------------------------------------------------------------------
\* C30: after any sequence of add_agent, remove_agent and set_default calls,
\* whenever the pool is non-empty the default name is the name of an agent
\* of the pool (the first agent added becomes the default, and removing the
\* default promotes a remaining agent)
C30_DefaultInPool ==
    DOMAIN agents # {} => default_agent \in DOMAIN agents

\* the default agent has just been removed from a pool that holds other agents
C30_Witness ==
    /\ pool_ret # Idle
    /\ pool_ret.op = "remove_agent"
    /\ pool_ret.reassigned
    /\ DOMAIN agents # {}

\* ------------------------------------------------------------------------
\* Scheduler: selection, success, cancellation
\* ------------------------------------------------------------------------
\* the step is a pass of the scheduler loop (the clock reaches the next tick)
TickStep == triggered = <<>> /\ now' = now + CheckIntervalSecs

\* the step handles the result of the action of task i
ResultHandled(i) ==
    /\ triggered # <<>>
    /\ triggered' = Tail(triggered)
    /\ find(tasks, Head(triggered)) = i

\* the step records that the action of task i succeeded
Succeeded(i) == ResultHandled(i) /\ tasks'[i].fail_count # tasks[i].fail_count + 1

\* the step starts a run of task i
Started(i) == tasks'[i].run_count = tasks[i].run_count + 1

\* enabled, not disabled, and retry_pending with retry_at <= now or next_run <= now
Selected(t, clock) ==
    /\ t.enabled
    /\ t.status.kind # "Disabled"
    /\ \/ t.status.kind = "RetryPending" /\ t.status.retry_at <= clock
       \/ t.next_run # None /\ t.next_run <= clock

\* C23: a task is selected to run at a tick (its run is started and its
\* action is among those the tick hands to execution) if and only if it is
\* enabled, its status is not disabled, and either its status is
\* retry_pending with retry_at <= now or its next_run <= now
C23_SelectedIffDue ==
    [][\A i \in DOMAIN tasks :
          /\ Started(i) <=> (TickStep /\ Selected(tasks[i], now'))
          /\ TickStep => ((\E k \in DOMAIN triggered' : triggered'[k] = tasks[i].id)
                              <=> Selected(tasks[i], now'))]_vars

\* a task has just been selected at its retry time
C23_Witness ==
    \E i \in DOMAIN tasks :
        /\ tasks[i].last_run = now
        /\ tasks[i].fail_count >= 1
        /\ tasks[i].run_count >= 2
        /\ triggered = <<tasks[i].id>>

\* C24: whatever the state of the task, after mark_success its fail_count
\* is 0, its last_error is empty and its status is completed
C24_MarkSuccessResets ==
    [][\A i \in DOMAIN tasks :
          Succeeded(i) => /\ tasks'[i].fail_count = 0
                          /\ tasks'[i].last_error = NoneStr
                          /\ tasks'[i].status = Completed]_vars

\* a task that had failed before has succeeded
C24_Witness ==
    \E i \in DOMAIN tasks :
        /\ tasks[i].status = Completed
        /\ tasks[i].fail_count = 0
        /\ tasks[i].run_count >= 2
        /\ triggered = <<>>

\* C25: after the action of a once task has succeeded the task (not
\* re-enabled while the action ran) has enabled = false, status = disabled
\* and next_run empty, and it is not started again
C25_OnceDoneIsDisabled ==
    [][\A i \in DOMAIN tasks :
          /\ (tasks[i].task_type = "Once" /\ ~tasks[i].enabled /\ Succeeded(i)) =>
                 /\ ~tasks'[i].enabled
                 /\ tasks'[i].status = Disabled
                 /\ tasks'[i].next_run = None
          /\ (tasks[i].task_type = "Once" /\ tasks[i].status = Completed) => ~Started(i)]_vars

\* ------------------------------------------------------------------------
\* Scheduler: cancellation, cadence, restart
\* ------------------------------------------------------------------------
\* the step at which the action of task i begins to execute: it is at the
\* head of the triggered tasks after a tick, or becomes the head when the
\* result of the action before it has been handled
ExecutionBegins(i) ==
    /\ triggered' # <<>>
    /\ Head(triggered') = tasks[i].id
    /\ triggered = <<>> \/ triggered' = Tail(triggered)

\* an interval or cron task is not enabled only after set_enabled(id, false)
Cancelled(t) == ~t.enabled /\ t.task_type # "Once"

\* C26: from set_enabled(id, false) on, until the task is re-enabled, no
\* tick starts a run of the task and no action of the task begins to
\* execute, whatever the outcome of the action that was in flight
C26_NoExecutionAfterCancel ==
    [][\A i \in DOMAIN tasks :
          /\ Started(i) => tasks[i].enabled
          /\ ExecutionBegins(i) => ~Cancelled(tasks[i])]_vars

\* C27: the cadence of the ticks does not depend on the actions: whenever
\* a tick interval has gone by, every task that is due (and has no action
\* running or waiting to run) is inspected and started
C27_TicksKeepCadence ==
    [][now' >= now + CheckIntervalSecs =>
          \A i \in DOMAIN tasks :
              (Selected(tasks[i], now')
                   /\ ~\E k \in DOMAIN triggered : triggered[k] = tasks[i].id)
                  => Started(i)]_vars

\* the step stops the process with actions pending and starts it again
RestartStep ==
    /\ triggered # <<>>
    /\ triggered' = <<>>
    /\ tasks' = engine_new(saved_tasks, now)

\* the task can still be selected by a later tick
Schedulable(t) == t.enabled /\ t.status.kind # "Disabled" /\ t.next_run # None

\* C28: when the process stops after a tick has marked a task as run and
\* before the outcome of its action was saved, the task is still scheduled
\* after the restart (it will be executed again, not dropped)
C28_NotDroppedByRestart ==
    [][RestartStep =>
          \A i \in DOMAIN tasks :
              ((\E k \in DOMAIN triggered : triggered[k] = tasks[i].id)
                   /\ (tasks[i].enabled \/ tasks[i].task_type = "Once"))
                  => Schedulable(tasks'[i])]_vars

\* ------------------------------------------------------------------------
\* Agent team claims
\* ------------------------------------------------------------------------
Leads(members) == {i \in DOMAIN members : members[i].role = "Lead"}

\* C32: a team has at most one member with role lead, after any sequence of
\* add_member calls and after storing and reloading it through either backend
C32_AtMostOneLead ==
    /\ Cardinality(Leads(team)) <= 1
    /\ team_loaded # Idle =>
           /\ Cardinality(Leads(team_loaded.sqlite)) <= 1
           /\ Cardinality(Leads(team_loaded.postgres)) <= 1

\* ------------------------------------------------------------------------
\* Scheduler: retries and permanent failure
\* ------------------------------------------------------------------------
\* C33: after a failure that leaves retries remaining (status retry_pending),
\* the first tick at or after retry_at starts the task again, whatever its
\* schedule type (here no call disables or removes the task)
C33_RetryRunsAtRetryAt ==
    [][TickStep =>
          \A i \in DOMAIN tasks :
              (tasks[i].status.kind = "RetryPending" /\ tasks[i].status.retry_at <= now')
                  => Started(i)]_vars

\* C34: a task that has permanently failed (status failed, retries
\* exhausted) is not started again, its fail_count does not grow and no
\* further urgent notification is emitted for it, until it is re-enabled
C34_FailedStaysFailed ==
    [][\A i \in DOMAIN tasks :
          /\ is_permanently_failed(tasks[i]) => ~Started(i)
          /\ (tasks[i].retry.max_retries > 0
                  /\ tasks[i].fail_count > tasks[i].retry.max_retries) =>
                 /\ tasks'[i].fail_count <= tasks[i].fail_count
                 /\ ResultHandled(i) => router'.Urgent = router.Urgent]_vars

\* ------------------------------------------------------------------------
\* Loop detector: when check signals a loop
\* ------------------------------------------------------------------------
\* C35: check returns true only when the fingerprint of the call was already
\* max_repetitions times in the history window, or the last six calls
\* alternate between two different fingerprints; so with max_repetitions > 5
\* six identical calls in a row are not a loop
C35_LoopOnlyWhenRepeatedOrAlternating ==
    [][(/\ Len(log') = Len(log) + 1
        /\ log'[Len(log')].op = "check"
        /\ log'[Len(log')].ret) =>
           LET e == log'[Len(log')].entry
               h == det'.history
               n == Len(h)
           IN  \/ count_in(det.history, e) >= det.max_repetitions
               \/ /\ n >= 6
                  /\ h[n] # h[n - 1]
                  /\ h[n - 2] = h[n] /\ h[n - 4] = h[n]
                  /\ h[n - 3] = h[n - 1] /\ h[n - 5] = h[n - 1]]_vars

\* ------------------------------------------------------------------------
\* Handoff claims: atomicity of create_handoff
\* ------------------------------------------------------------------------
\* C36: create_handoff is all-or-nothing: when it returns an error, the
\* handoff that was active for the session before the call is still active
C36_CreateHandoffAllOrNothing ==
    (handoff_ret # Idle /\ handoff_ret.ret = "Err") =>
        active_handoff(handoffs, handoff_ret.session_id) = handoff_ret.before

\* ------------------------------------------------------------------------
\* Team message claims
\* ------------------------------------------------------------------------
\* C37: a broadcast message is returned by unread_messages to every member
\* other than its sender until that member has read it: another member's
\* reading does not remove it
C37_BroadcastUnreadPerMember ==
    \A i \in DOMAIN team_messages :
        LET m == team_messages[i]
        IN  m.to_agent = NoneStr =>
                \A a \in Members \ {m.from_agent} :
                    <<a, m.id>> \notin msg_seen =>
                        \E k \in DOMAIN unread_messages(team_messages, a) :
                            unread_messages(team_messages, a)[k].id = m.id

\* ------------------------------------------------------------------------
\* Command guard claims
\* ------------------------------------------------------------------------
\* C38: for every command and the same allowed commands, check_command
\* permits the command exactly when is_command_allowed returns true
C38_GuardsAgree ==
    (check_ret # Idle /\ cmd_ret # Idle) => check_ret.allowed = cmd_ret.allowed

\* ------------------------------------------------------------------------
\* MCP transport claims
\* ------------------------------------------------------------------------
\* C39: every response returned by StdioTransport::request is the server's
\* response to the request that the call sent, also after an earlier request
\* timed out and its response arrived late
C39_ResponseMatchesRequest ==
    (resp # Idle /\ resp.ret # None) => resp.ret = resp.id

\* ------------------------------------------------------------------------
\* Workflow claims
\* ------------------------------------------------------------------------
\* execute has returned wf_state
Returned == wf_state # Idle /\ wf_state.status \in {"Completed", "Failed"}

\* C40: a run accounts for every step: a state returned as completed holds a
\* step result for every step of the workflow, and the failure of a
\* non-optional step either fails the run or leaves a failed or skipped result
C40_EveryStepAccounted ==
    Returned =>
        /\ wf_state.status = "Completed" =>
               \A i \in DOMAIN wf.steps :
                   \E k \in DOMAIN wf_state.step_results :
                       wf_state.step_results[k].step_name = wf.steps[i].name
        /\ \A i \in DOMAIN wf.steps :
               (wf.steps[i].name \in wf_errors /\ ~wf.steps[i].optional) =>
                   \/ wf_state.status = "Failed"
                   \/ \E k \in DOMAIN wf_state.step_results :
                          /\ wf_state.step_results[k].step_name = wf.steps[i].name
                          /\ wf_state.step_results[k].status \in {"Failed", "Skipped"}

====
